---- MODULE Spec2Model ----
(***************************************************************************)
(* Session actor, idle timer and session registry of spoticord             *)
(* (spoticord_session/src/lib.rs).                                          *)
(*                                                                         *)
(* One Session is the state owned by one actor task (Session::run).  Other *)
(* tasks reach it only through its bounded command queue (SessionHandle),  *)
(* through the producer event stream and through the internal queue the    *)
(* idle timer tasks write to.  Every handler of the actor is one action:   *)
(* the actor owns its state exclusively, so nothing can observe a handler  *)
(* half-way except through the registry and the queues.                    *)
(***************************************************************************)
EXTENDS Integers, Sequences, FiniteSets, TLC

\* ---------------------------------------------------------------- bounds
MaxSessions == 2   \* sessions ever created
MaxInputs == 4     \* inputs of the environment: join commands, transport callbacks, producer events
MaxTimers == 3     \* idle-timer tasks of one session waiting or with a message queued
MaxPlayers == 3    \* producers one session ever starts
MaxEmbeds == 2     \* projections of one kind one session has created and not yet released
FullInputs == 1    \* inputs the environment makes once the external queue is full
LiveInputs == 3    \* inputs the environment makes under the fair specification

CHANNEL_CAPACITY == 16

Guilds == {"g1", "g2"}
Users == {"u1", "u2"}
SessionIds == 1..MaxSessions
TimerIds == 1..MaxTimers
None == 0
NoUser == "-"
NoGuild == "-"

\* users and guilds are interchangeable: the first join command is u1's and the
\* first session is created in g1
FirstUser == "u1"
FirstGuild == "g1"

PlayerEvents == {"Play", "Pause", "Stopped", "TrackChanged", "ConnectionReset"}

\* outcomes of the external collaborators Session::create and reactivate await
TextChannelOutcomes == {"guild", "not_guild", "error"}
TokenOutcomes == {"some", "none", "error"}
JoinOutcomes == {"ok", "error"}
PlayerOutcomes == {"ok", "BadCredentials", "Unavailable"}

\* outcomes of PlaybackEmbed::create and LyricsEmbed::create (Ok(Some), Ok(None),
\* Err) and of PlaybackEmbedHandle::invoke_update (Ok, Err)
EmbedOutcomes == {"some", "none", "error"}
UpdateOutcomes == {"ok", "error"}
EmbedIds == 1..MaxEmbeds
CallbackKinds == {"DriverDisconnect", "ClientDisconnect"}

VARIABLES
    status,           \* per session: "free", "creating", "running", "failed", "dropped"
    guild_id,         \* Session.guild_id
    owner,            \* Session.owner
    active,           \* Session.active
    player,           \* Session.player: the producer handle, the n-th the session started
    timeout_tx,       \* Session.timeout_tx: None or the timer task holding the receiver
    commands,         \* Session.commands: external command queue
    commands_closed,  \* the receiver of commands is closed or dropped
    events,           \* Session.events: producer event stream
    events_closed,    \* the receiver of events is closed
    commands_inner,   \* Session.commands_inner_rx: internal command queue
    timers,           \* per session, per timer task: "idle" or "armed"
    running,          \* the sessions whose producer is started and not shut down
    sessions,         \* registry: guild -> session handle
    owners,           \* registry: owner -> session handle
    inCall,           \* voice transport: the bot is joined in the guild's call
    req,              \* per user: the join command in progress and its last result
    cb,               \* per session: the participant-left callback in progress
    notices,          \* per session: the notices it has sent to its text channel
    logged,           \* per session: the failed sends through its handle that were logged
    playback_embed,   \* Session.playback_embed: None or the handle of the playback embed
    lyrics_embed,     \* Session.lyrics_embed: None or the JoinHandle of the lyrics task
    lyrics_tasks,     \* per session: the lyrics tasks spawned and not aborted
    updated,          \* per session: the last invoke_update, its argument and its result
    cancelled,        \* per session: the callbacks of its handle that returned Event::Cancel
    errors,           \* per session: the failed creations of an embed its actor logged
    inputs            \* inputs the environment has made so far

vars == <<status, guild_id, owner, active, player, timeout_tx, commands,
          commands_closed, events, events_closed, commands_inner, timers,
          running, sessions, owners, inCall, req, cb, notices, logged,
          playback_embed, lyrics_embed, lyrics_tasks, updated, cancelled, errors,
          inputs>>

\* ---------------------------------------------------------------- values
\* a result: Ok or the Error variant, with the producer's error where one caused it
Res(kind, why) == [kind |-> kind, why |-> why]
NoResult == Res("none", "none")

\* a SessionCommand; gen names the timer task a DisconnectTimedOut comes from
Cmd(kind, user) == [kind |-> kind, user |-> user, gen |-> None]
TimedOut(gen) == [kind |-> "DisconnectTimedOut", user |-> NoUser, gen |-> gen]

IdleReq == [pc |-> "idle", op |-> "none", sid |-> None, result |-> NoResult]
Done(op, result) == [pc |-> "done", op |-> op, sid |-> None, result |-> result]
IdleCb == [pc |-> "idle", user |-> NoUser]
NoNotices == [inactive |-> 0, lost |-> 0]
NoUpdate == [force |-> FALSE, result |-> "none"]

\* no session has been created, nobody is in a call and no command is in progress
NoSessions ==
    /\ status = [s \in SessionIds |-> "free"]
    /\ guild_id = [s \in SessionIds |-> NoGuild]
    /\ owner = [s \in SessionIds |-> NoUser]
    /\ active = [s \in SessionIds |-> FALSE]
    /\ player = [s \in SessionIds |-> None]
    /\ timeout_tx = [s \in SessionIds |-> None]
    /\ commands = [s \in SessionIds |-> <<>>]
    /\ commands_closed = [s \in SessionIds |-> FALSE]
    /\ events = [s \in SessionIds |-> <<>>]
    /\ events_closed = [s \in SessionIds |-> FALSE]
    /\ commands_inner = [s \in SessionIds |-> <<>>]
    /\ timers = [s \in SessionIds |-> [i \in TimerIds |-> "idle"]]
    /\ running = {}
    /\ sessions = [g \in Guilds |-> None]
    /\ owners = [u \in Users |-> None]
    /\ inCall = [g \in Guilds |-> FALSE]
    /\ req = [u \in Users |-> IdleReq]
    /\ cb = [s \in SessionIds |-> IdleCb]
    /\ notices = [s \in SessionIds |-> NoNotices]
    /\ logged = [s \in SessionIds |-> 0]
    /\ playback_embed = [s \in SessionIds |-> None]
    /\ lyrics_embed = [s \in SessionIds |-> None]
    /\ lyrics_tasks = [s \in SessionIds |-> {}]
    /\ updated = [s \in SessionIds |-> NoUpdate]
    /\ cancelled = [s \in SessionIds |-> {}]
    /\ errors = [s \in SessionIds |-> 0]

Init ==
    /\ NoSessions
    /\ inputs = 0

\* an input of the environment, counted against MaxInputs
CountInput == inputs < MaxInputs /\ inputs' = inputs + 1

\* ---------------------------------------------------------------- queues
\* mpsc::channel(16): a send completes only while the queue has room
QueueRoom(q) == Len(q) < CHANNEL_CAPACITY

\* a handle that takes every endpoint for open
is_valid_always(s) == TRUE

\* SessionHandle::is_valid: the endpoint is not closed
is_valid(s) == ~commands_closed[s]

\* ---------------------------------------------------------------- registry
\* SessionManager: get_session, the insert on creation, remove_session
get_session_guild(g) == sessions[g]
get_session_owner(u) == owners[u]
insert_guild(reg, g, s) == [reg EXCEPT ![g] = s]
insert_owner(reg, u, s) == [reg EXCEPT ![u] = s]
remove_session_guild(reg, g) == [reg EXCEPT ![g] = None]
remove_session_owner(reg, u) == [reg EXCEPT ![u] = None]

\* ---------------------------------------------------------------- idle timer
\* `if let Some(tx) = self.timeout_tx.take() { _ = tx.send(()); }`: a timer task
\* that still waits returns, a task that is gone ignores the signal.  (A
\* cancelled task that takes the tick branch of its select all the same sends
\* what a task that expired just before the cancellation sends: TimerExpire
\* followed by the cancellation.)
CancelTimer(tm, tok) ==
    IF tok # None /\ tm[tok] = "armed" THEN [tm EXCEPT ![tok] = "idle"] ELSE tm

\* timer tasks of tm that do not wait and have no DisconnectTimedOut queued
FreeTimers(s, tm) ==
    {i \in TimerIds : /\ tm[i] = "idle"
                      /\ \A k \in DOMAIN commands_inner[s] : commands_inner[s][k].gen # i}

MinTimer(S) == CHOOSE i \in S : \A j \in S : i <= j

\* the timer task start_timeout spawns
NewTimer(s) == MinTimer(FreeTimers(s, CancelTimer(timers[s], timeout_tx[s])))

\* a start_timeout that keeps the pending timer waiting
start_timeout_no_cancel(s) ==
    /\ FreeTimers(s, timers[s]) # {}
    /\ timers' = [timers EXCEPT ![s][MinTimer(FreeTimers(s, timers[s]))] = "armed"]
    /\ timeout_tx' = [timeout_tx EXCEPT ![s] = MinTimer(FreeTimers(s, timers[s]))]

\* Session::start_timeout: cancel the pending timer, keep a new sender, spawn
\* the timer task that holds its receiver
start_timeout(s) ==
    /\ FreeTimers(s, CancelTimer(timers[s], timeout_tx[s])) # {}
    /\ timers' = [timers EXCEPT
                    ![s] = [CancelTimer(timers[s], timeout_tx[s]) EXCEPT ![NewTimer(s)] = "armed"]]
    /\ timeout_tx' = [timeout_tx EXCEPT ![s] = NewTimer(s)]

\* Session::stop_timeout
stop_timeout(s) ==
    /\ timers' = [timers EXCEPT ![s] = CancelTimer(timers[s], timeout_tx[s])]
    /\ timeout_tx' = [timeout_tx EXCEPT ![s] = None]

\* a timer task that sends its DisconnectTimedOut through the external queue
TimerExpire_external(s, i) ==
    /\ UNCHANGED <<playback_embed, lyrics_embed, lyrics_tasks, updated, cancelled, errors>>
    /\ UNCHANGED <<inputs, notices, logged>>
    /\ status[s] = "running"
    /\ timers[s][i] = "armed"
    /\ QueueRoom(commands[s])
    /\ timers' = [timers EXCEPT ![s][i] = "idle"]
    /\ commands' = [commands EXCEPT ![s] = Append(@, TimedOut(i))]
    /\ UNCHANGED <<status, guild_id, owner, active, player, timeout_tx, commands_inner,
                   commands_closed, events, events_closed, running, sessions,
                   owners, inCall, req, cb>>

\* the task spawned by start_timeout: its tick elapses before it is cancelled
\* and it sends DisconnectTimedOut through the internal queue
TimerExpire(s, i) ==
    /\ UNCHANGED <<playback_embed, lyrics_embed, lyrics_tasks, updated, cancelled, errors>>
    /\ UNCHANGED <<inputs, notices, logged>>
    /\ status[s] = "running"
    /\ timers[s][i] = "armed"
    /\ QueueRoom(commands_inner[s])
    /\ timers' = [timers EXCEPT ![s][i] = "idle"]
    /\ commands_inner' = [commands_inner EXCEPT ![s] = Append(@, TimedOut(i))]
    /\ UNCHANGED <<status, guild_id, owner, active, player, timeout_tx, commands,
                   commands_closed, events, events_closed, running, sessions,
                   owners, inCall, req, cb>>

\* ---------------------------------------------------------------- actor
\* a shutdown_player that does not shut the producer down
shutdown_player_keep_running(s) ==
    /\ running' = running
    /\ start_timeout(s)
    /\ active' = [active EXCEPT ![s] = FALSE]
    /\ owners' = remove_session_owner(owners, owner[s])

\* a shutdown_player that cancels the idle timer instead of starting it
shutdown_player_no_timer(s) ==
    /\ running' = running \ {s}
    /\ stop_timeout(s)
    /\ active' = [active EXCEPT ![s] = FALSE]
    /\ owners' = remove_session_owner(owners, owner[s])

\* a shutdown_player that leaves the owner in the owner index
shutdown_player_keep_owner(s) ==
    /\ running' = running \ {s}
    /\ start_timeout(s)
    /\ active' = [active EXCEPT ![s] = FALSE]
    /\ owners' = owners

\* Session::shutdown_player
shutdown_player(s) ==
    /\ running' = running \ {s}
    /\ start_timeout(s)
    /\ active' = [active EXCEPT ![s] = FALSE]
    /\ owners' = remove_session_owner(owners, owner[s])

\* a Disconnect effect that leaves the command queue open
disconnect_keep_open(s) ==
    /\ stop_timeout(s)
    /\ commands_closed' = commands_closed
    /\ events_closed' = [events_closed EXCEPT ![s] = TRUE]
    /\ inCall' = [inCall EXCEPT ![guild_id[s]] = FALSE]

\* Session::disconnect
disconnect(s) ==
    /\ stop_timeout(s)
    /\ commands_closed' = [commands_closed EXCEPT ![s] = TRUE]
    /\ events_closed' = [events_closed EXCEPT ![s] = TRUE]
    /\ inCall' = [inCall EXCEPT ![guild_id[s]] = FALSE]

\* a caller whose Reactivate is still queued when the queue is dropped gets a
\* receive error from its reply channel
DropReplies(s) ==
    [u \in Users |->
        IF req[u].pc = "waiting" /\ req[u].sid = s
        THEN Done("reactivate", Res("RecvError", "none"))
        ELSE req[u]]

\* Drop::drop, the projections: the lyrics task is aborted, and the playback
\* embed handle goes with the struct
drop_embeds(s) ==
    /\ lyrics_tasks' = [lyrics_tasks EXCEPT ![s] = @ \ {lyrics_embed[s]}]
    /\ lyrics_embed' = [lyrics_embed EXCEPT ![s] = None]
    /\ playback_embed' = [playback_embed EXCEPT ![s] = None]

\* a Drop that forgets the owner entry
drop_registry_guild_only(s) ==
    /\ sessions' = remove_session_guild(sessions, guild_id[s])
    /\ owners' = owners

\* Drop::drop, the registry part: remove_session by the guild and by the owner
drop_registry(s) ==
    /\ sessions' = remove_session_guild(sessions, guild_id[s])
    /\ owners' = remove_session_owner(owners, owner[s])

\* a teardown that leaves the pending timer waiting
Drop_keep_timer(s) ==
    /\ status' = [status EXCEPT ![s] = "dropped"]
    /\ timers' = timers
    /\ timeout_tx' = timeout_tx
    /\ drop_registry(s)
    /\ commands' = [commands EXCEPT ![s] = <<>>]
    /\ commands_inner' = [commands_inner EXCEPT ![s] = <<>>]
    /\ events' = [events EXCEPT ![s] = <<>>]
    /\ commands_closed' = [commands_closed EXCEPT ![s] = TRUE]
    /\ events_closed' = [events_closed EXCEPT ![s] = TRUE]
    /\ guild_id' = [guild_id EXCEPT ![s] = NoGuild]
    /\ owner' = [owner EXCEPT ![s] = NoUser]
    /\ active' = [active EXCEPT ![s] = FALSE]
    /\ player' = [player EXCEPT ![s] = None]
    /\ running' = running \ {s}
    /\ req' = DropReplies(s)
    /\ drop_embeds(s)
    /\ cb' = [cb EXCEPT ![s] = IdleCb]

\* a teardown after which the endpoints still accept messages
Drop_keep_open(s) ==
    /\ status' = [status EXCEPT ![s] = "dropped"]
    /\ timers' = [timers EXCEPT ![s] = [i \in TimerIds |-> "idle"]]
    /\ timeout_tx' = [timeout_tx EXCEPT ![s] = None]
    /\ drop_registry(s)
    /\ commands' = [commands EXCEPT ![s] = <<>>]
    /\ commands_inner' = [commands_inner EXCEPT ![s] = <<>>]
    /\ events' = [events EXCEPT ![s] = <<>>]
    /\ commands_closed' = commands_closed
    /\ events_closed' = events_closed
    /\ guild_id' = [guild_id EXCEPT ![s] = NoGuild]
    /\ owner' = [owner EXCEPT ![s] = NoUser]
    /\ active' = [active EXCEPT ![s] = FALSE]
    /\ player' = [player EXCEPT ![s] = None]
    /\ running' = running \ {s}
    /\ req' = DropReplies(s)
    /\ drop_embeds(s)
    /\ cb' = [cb EXCEPT ![s] = IdleCb]

\* a teardown that keeps the reply senders of the queued queries alive
Drop_keep_replies(s) ==
    /\ status' = [status EXCEPT ![s] = "dropped"]
    /\ timers' = [timers EXCEPT ![s] = [i \in TimerIds |-> "idle"]]
    /\ timeout_tx' = [timeout_tx EXCEPT ![s] = None]
    /\ drop_registry(s)
    /\ commands' = [commands EXCEPT ![s] = <<>>]
    /\ commands_inner' = [commands_inner EXCEPT ![s] = <<>>]
    /\ events' = [events EXCEPT ![s] = <<>>]
    /\ commands_closed' = [commands_closed EXCEPT ![s] = TRUE]
    /\ events_closed' = [events_closed EXCEPT ![s] = TRUE]
    /\ guild_id' = [guild_id EXCEPT ![s] = NoGuild]
    /\ owner' = [owner EXCEPT ![s] = NoUser]
    /\ active' = [active EXCEPT ![s] = FALSE]
    /\ player' = [player EXCEPT ![s] = None]
    /\ running' = running \ {s}
    /\ req' = DropReplies(s)
    /\ drop_embeds(s)
    /\ cb' = cb

\* impl Drop for Session, run when Session::run returns: the pending timer is
\* cancelled and the registry entries of the guild and of the owner are removed.
\* The struct, its queues, its producer handle and its timer tasks are gone
\* afterwards, so their model values are reset.
Drop(s) ==
    /\ status' = [status EXCEPT ![s] = "dropped"]
    /\ timers' = [timers EXCEPT ![s] = [i \in TimerIds |-> "idle"]]
    /\ timeout_tx' = [timeout_tx EXCEPT ![s] = None]
    /\ drop_registry(s)
    /\ commands' = [commands EXCEPT ![s] = <<>>]
    /\ commands_inner' = [commands_inner EXCEPT ![s] = <<>>]
    /\ events' = [events EXCEPT ![s] = <<>>]
    /\ commands_closed' = [commands_closed EXCEPT ![s] = TRUE]
    /\ events_closed' = [events_closed EXCEPT ![s] = TRUE]
    /\ guild_id' = [guild_id EXCEPT ![s] = NoGuild]
    /\ owner' = [owner EXCEPT ![s] = NoUser]
    /\ active' = [active EXCEPT ![s] = FALSE]
    /\ player' = [player EXCEPT ![s] = None]
    /\ running' = running \ {s}
    /\ req' = DropReplies(s)
    /\ drop_embeds(s)
    /\ cb' = [cb EXCEPT ![s] = IdleCb]

\* a Disconnect arm that breaks out of the loop without disconnect()
HandleDisconnect_no_leave(s) ==
    /\ inCall' = inCall
    /\ Drop(s)

\* the Disconnect and DisconnectTimedOut arms of handle_command: disconnect()
\* and ControlFlow::Break, after which run returns and the session is dropped;
\* DisconnectTimedOut sends the inactivity notice in between
HandleDisconnect(s) ==
    /\ inCall' = [inCall EXCEPT ![guild_id[s]] = FALSE]
    /\ Drop(s)

\* a reactivate that does not look at the active flag
ReactivateGuard_unchecked(isActive, tok) ==
    IF tok = "error" THEN Res("Storage", "none")
    ELSE IF tok = "none" THEN Res("Other", "No Spotify account linked to bot")
    ELSE Res("proceed", "none")

\* the error reactivate returns before it starts the producer, "proceed" if none
ReactivateGuard(isActive, tok) ==
    IF isActive THEN Res("AlreadyActive", "none")
    ELSE IF tok = "error" THEN Res("Storage", "none")
    ELSE IF tok = "none" THEN Res("Other", "No Spotify account linked to bot")
    ELSE Res("proceed", "none")

\* the Err arm of Player::create in reactivate: the bad-credentials case is
\* logged, and every failure is returned as the producer's error
ReactivatePlayerError(why) == Res("Librespot", why)

\* what reactivate returns
ReactivateResult(isActive, tok, po) ==
    IF ReactivateGuard(isActive, tok).kind # "proceed" THEN ReactivateGuard(isActive, tok)
    ELSE IF po # "ok" THEN ReactivatePlayerError(po)
    ELSE Res("Ok", "none")

\* a reactivate that takes the new owner before it starts the producer
reactivate_owner_first(s, new_owner, tok, po) ==
    /\ req' = [req EXCEPT ![new_owner] =
                  Done("reactivate", ReactivateResult(active[s], tok, po))]
    /\ IF ReactivateResult(active[s], tok, po).kind # "Ok"
       THEN /\ owner' = [owner EXCEPT ![s] = IF active[s] THEN @ ELSE new_owner]
            /\ UNCHANGED <<player, events, events_closed, active, running>>
       ELSE /\ player[s] < MaxPlayers
            /\ owner' = [owner EXCEPT ![s] = new_owner]
            /\ player' = [player EXCEPT ![s] = @ + 1]
            /\ events' = [events EXCEPT ![s] = <<>>]
            /\ events_closed' = [events_closed EXCEPT ![s] = FALSE]
            /\ active' = [active EXCEPT ![s] = TRUE]
            /\ running' = running \cup {s}

\* a reactivate that restarts the producer it already holds
reactivate_same_player(s, new_owner, tok, po) ==
    /\ req' = [req EXCEPT ![new_owner] =
                  Done("reactivate", ReactivateResult(active[s], tok, po))]
    /\ IF ReactivateResult(active[s], tok, po).kind # "Ok"
       THEN UNCHANGED <<owner, player, events, events_closed, active, running>>
       ELSE /\ player[s] < MaxPlayers
            /\ owner' = [owner EXCEPT ![s] = new_owner]
            /\ player' = player
            /\ events' = [events EXCEPT ![s] = <<>>]
            /\ events_closed' = [events_closed EXCEPT ![s] = FALSE]
            /\ active' = [active EXCEPT ![s] = TRUE]
            /\ running' = running \cup {s}

\* Session::reactivate, answered through the Reactivate arm of handle_command
reactivate(s, new_owner, tok, po) ==
    /\ req' = [req EXCEPT ![new_owner] =
                  Done("reactivate", ReactivateResult(active[s], tok, po))]
    /\ IF ReactivateResult(active[s], tok, po).kind # "Ok"
       THEN UNCHANGED <<owner, player, events, events_closed, active, running>>
       ELSE /\ player[s] < MaxPlayers
            /\ owner' = [owner EXCEPT ![s] = new_owner]
            /\ player' = [player EXCEPT ![s] = @ + 1]
            /\ events' = [events EXCEPT ![s] = <<>>]
            /\ events_closed' = [events_closed EXCEPT ![s] = FALSE]
            /\ active' = [active EXCEPT ![s] = TRUE]
            /\ running' = running \cup {s}

\* a DisconnectTimedOut arm that sends nothing to the text channel
inactivity_notice_none(s) == UNCHANGED notices

\* handle_command, the DisconnectTimedOut arm: the message "It's a little quiet
\* in here" is sent to the text channel
inactivity_notice(s) == notices' = [notices EXCEPT ![s].inactive = @ + 1]

\* the identifier of the next projection, given the live ones
NewEmbed(live) == CHOOSE e \in EmbedIds \ live : \A o \in EmbedIds \ live : e <= o

\* a CreatePlaybackEmbed arm that stores no handle when the creation fails
CreatePlaybackEmbed_detach(s, out) ==
    /\ playback_embed' = [playback_embed EXCEPT ![s] =
                            IF out = "some" THEN NewEmbed({@}) ELSE None]
    /\ errors' = [errors EXCEPT ![s] = IF out = "error" THEN @ + 1 ELSE @]
    /\ UNCHANGED <<lyrics_embed, lyrics_tasks>>

\* handle_command, the CreatePlaybackEmbed arm: Ok(opt_handle) is stored as it
\* is, Err is logged
CreatePlaybackEmbed(s, out) ==
    /\ playback_embed' = [playback_embed EXCEPT ![s] =
                            CASE out = "some" -> NewEmbed({@})
                              [] out = "none" -> None
                              [] OTHER -> @]
    /\ errors' = [errors EXCEPT ![s] = IF out = "error" THEN @ + 1 ELSE @]
    /\ UNCHANGED <<lyrics_embed, lyrics_tasks>>

\* a CreateLyricsEmbed arm that attaches the new task without aborting the
\* current one
CreateLyricsEmbed_no_abort(s, out) ==
    /\ UNCHANGED playback_embed
    /\ errors' = [errors EXCEPT ![s] = IF out = "error" THEN @ + 1 ELSE @]
    /\ IF out = "some"
       THEN /\ EmbedIds \ lyrics_tasks[s] # {}
            /\ lyrics_tasks' = [lyrics_tasks EXCEPT ![s] = @ \cup {NewEmbed(@)}]
            /\ lyrics_embed' = [lyrics_embed EXCEPT ![s] = NewEmbed(lyrics_tasks[s])]
       ELSE UNCHANGED <<lyrics_embed, lyrics_tasks>>

\* handle_command, the CreateLyricsEmbed arm: LyricsEmbed::create has spawned
\* the new task when it returns Ok(Some); the current task is then aborted and
\* the new one attached.  Ok(None) and Err leave the field alone
CreateLyricsEmbed(s, out) ==
    /\ UNCHANGED playback_embed
    /\ errors' = [errors EXCEPT ![s] = IF out = "error" THEN @ + 1 ELSE @]
    /\ IF out = "some"
       THEN /\ EmbedIds \ lyrics_tasks[s] # {}
            /\ lyrics_tasks' = [lyrics_tasks EXCEPT ![s] =
                                  (@ \ {lyrics_embed[s]}) \cup {NewEmbed(@)}]
            /\ lyrics_embed' = [lyrics_embed EXCEPT ![s] = NewEmbed(lyrics_tasks[s])]
       ELSE UNCHANGED <<lyrics_embed, lyrics_tasks>>

\* Session::handle_command for a command c taken from one of the two queues;
\* cq and iq are the external and the internal queue after the receive
handle_command(s, c, cq, iq) ==
    \/ /\ c.kind = "GetOwner"
       /\ UNCHANGED <<playback_embed, lyrics_embed, lyrics_tasks, errors>>
       /\ cb' = [cb EXCEPT ![s] = IF owner[s] = cb[s].user
                                  THEN [cb[s] EXCEPT !.pc = "send_shutdown"]
                                  ELSE IdleCb]
       /\ commands' = [commands EXCEPT ![s] = cq]
       /\ commands_inner' = [commands_inner EXCEPT ![s] = iq]
       /\ UNCHANGED <<status, guild_id, owner, active, player, timeout_tx,
                      commands_closed, events, events_closed, timers, running,
                      sessions, owners, inCall, req, notices>>
    \/ /\ c.kind = "GetActive"
       /\ UNCHANGED <<playback_embed, lyrics_embed, lyrics_tasks, errors>>
       /\ cb' = [cb EXCEPT ![s] = IF active[s]
                                  THEN [cb[s] EXCEPT !.pc = "send_owner"]
                                  ELSE IdleCb]
       /\ commands' = [commands EXCEPT ![s] = cq]
       /\ commands_inner' = [commands_inner EXCEPT ![s] = iq]
       /\ UNCHANGED <<status, guild_id, owner, active, player, timeout_tx,
                      commands_closed, events, events_closed, timers, running,
                      sessions, owners, inCall, req, notices>>
    \/ /\ c.kind = "GetPlayer"
       /\ UNCHANGED <<playback_embed, lyrics_embed, lyrics_tasks, errors>>
       /\ commands' = [commands EXCEPT ![s] = cq]
       /\ commands_inner' = [commands_inner EXCEPT ![s] = iq]
       /\ UNCHANGED <<status, guild_id, owner, active, player, timeout_tx,
                      commands_closed, events, events_closed, timers, running,
                      sessions, owners, inCall, req, cb, notices>>
    \/ /\ c.kind = "Reactivate"
       /\ UNCHANGED <<playback_embed, lyrics_embed, lyrics_tasks, errors>>
       /\ \E tok \in TokenOutcomes, po \in PlayerOutcomes : reactivate(s, c.user, tok, po)
       /\ commands' = [commands EXCEPT ![s] = cq]
       /\ commands_inner' = [commands_inner EXCEPT ![s] = iq]
       /\ UNCHANGED <<status, guild_id, timeout_tx, commands_closed, timers,
                      sessions, owners, inCall, cb, notices>>
    \/ /\ c.kind = "ShutdownPlayer"
       /\ UNCHANGED <<playback_embed, lyrics_embed, lyrics_tasks, errors>>
       /\ shutdown_player(s)
       /\ commands' = [commands EXCEPT ![s] = cq]
       /\ commands_inner' = [commands_inner EXCEPT ![s] = iq]
       /\ UNCHANGED <<status, guild_id, owner, player, commands_closed, events,
                      events_closed, sessions, inCall, req, cb, notices>>
    \/ /\ c.kind = "CreatePlaybackEmbed"
       /\ \E out \in EmbedOutcomes : CreatePlaybackEmbed(s, out)
       /\ commands' = [commands EXCEPT ![s] = cq]
       /\ commands_inner' = [commands_inner EXCEPT ![s] = iq]
       /\ UNCHANGED <<status, guild_id, owner, active, player, timeout_tx,
                      commands_closed, events, events_closed, timers, running,
                      sessions, owners, inCall, req, cb, notices>>
    \/ /\ c.kind = "CreateLyricsEmbed"
       /\ \E out \in EmbedOutcomes : CreateLyricsEmbed(s, out)
       /\ commands' = [commands EXCEPT ![s] = cq]
       /\ commands_inner' = [commands_inner EXCEPT ![s] = iq]
       /\ UNCHANGED <<status, guild_id, owner, active, player, timeout_tx,
                      commands_closed, events, events_closed, timers, running,
                      sessions, owners, inCall, req, cb, notices>>
    \/ /\ c.kind = "Disconnect"
       /\ HandleDisconnect(s)
       /\ UNCHANGED <<notices, errors>>
    \/ /\ c.kind = "DisconnectTimedOut"
       /\ HandleDisconnect(s)
       /\ inactivity_notice(s)
       /\ UNCHANGED errors

\* a handle_event whose TrackChanged arm restarts the idle timer
handle_event_match_restart(s, event) ==
    \/ /\ event = "Play"
       /\ stop_timeout(s)
       /\ UNCHANGED <<active, running, owners, commands_closed, events_closed, inCall,
                      notices>>
    \/ /\ event = "Pause"
       /\ start_timeout(s)
       /\ UNCHANGED <<active, running, owners, commands_closed, events_closed, inCall,
                      notices>>
    \/ /\ event = "Stopped"
       /\ shutdown_player(s)
       /\ UNCHANGED <<commands_closed, events_closed, inCall, notices>>
    \/ /\ event = "TrackChanged"
       /\ start_timeout(s)
       /\ UNCHANGED <<active, running, owners, commands_closed, events_closed, inCall,
                      notices>>
    \/ /\ event = "ConnectionReset"
       /\ disconnect(s)
       /\ notices' = [notices EXCEPT ![s].lost = @ + 1]
       /\ UNCHANGED <<active, running, owners>>

\* Session::handle_event, the match on the event
handle_event_match(s, event) ==
    \/ /\ event = "Play"
       /\ stop_timeout(s)
       /\ UNCHANGED <<active, running, owners, commands_closed, events_closed, inCall,
                      notices>>
    \/ /\ event = "Pause"
       /\ start_timeout(s)
       /\ UNCHANGED <<active, running, owners, commands_closed, events_closed, inCall,
                      notices>>
    \/ /\ event = "Stopped"
       /\ shutdown_player(s)
       /\ UNCHANGED <<commands_closed, events_closed, inCall, notices>>
    \/ /\ event = "TrackChanged"
       /\ UNCHANGED <<active, running, owners, commands_closed, events_closed, inCall,
                      timers, timeout_tx, notices>>
    \/ /\ event = "ConnectionReset"
       /\ disconnect(s)
       /\ notices' = [notices EXCEPT ![s].lost = @ + 1]
       /\ UNCHANGED <<active, running, owners>>

\* whether handle_event forces the edit of the playback embed
force_edit_always(event) == TRUE

force_edit(event) == event # "TrackChanged"

\* Session::handle_event, after the match: an attached playback embed is
\* updated, and detached when the update fails
invoke_update(s, event, out) ==
    /\ updated' = [updated EXCEPT ![s] = [force |-> force_edit(event), result |-> out]]
    /\ playback_embed' = [playback_embed EXCEPT ![s] = IF out = "error" THEN None ELSE @]

\* Session::handle_event
handle_event(s, event) ==
    /\ handle_event_match(s, event)
    /\ IF playback_embed[s] # None
       THEN \E out \in UpdateOutcomes : invoke_update(s, event, out)
       ELSE UNCHANGED <<playback_embed, updated>>

\* a run loop that receives the command sent last
RecvCommand_lifo(s) ==
    /\ UNCHANGED <<updated, cancelled>>
    /\ UNCHANGED <<inputs, logged>>
    /\ status[s] = "running"
    /\ IF commands[s] # <<>>
       THEN handle_command(s, commands[s][Len(commands[s])],
                           SubSeq(commands[s], 1, Len(commands[s]) - 1), commands_inner[s])
       ELSE /\ commands_closed[s]
            /\ Drop(s)
            /\ UNCHANGED <<inCall, notices, errors>>

\* Session::run, first select branch: self.commands.recv()
RecvCommand(s) ==
    /\ UNCHANGED <<updated, cancelled>>
    /\ UNCHANGED <<inputs, logged>>
    /\ status[s] = "running"
    /\ IF commands[s] # <<>>
       THEN handle_command(s, Head(commands[s]), Tail(commands[s]), commands_inner[s])
       ELSE /\ commands_closed[s]
            /\ Drop(s)
            /\ UNCHANGED <<inCall, notices, errors>>

\* a run loop that polls the event stream whether the session is active or not
RecvEvent_unguarded(s) ==
    /\ UNCHANGED <<lyrics_embed, lyrics_tasks, cancelled, errors>>
    /\ UNCHANGED <<inputs, logged>>
    /\ status[s] = "running"
    /\ IF events[s] # <<>>
       THEN /\ handle_event(s, Head(events[s]))
            /\ events' = [events EXCEPT ![s] = Tail(@)]
       ELSE /\ events_closed[s] \/ s \notin running
            /\ shutdown_player(s)
            /\ UNCHANGED <<events, commands_closed, events_closed, inCall, notices,
                           playback_embed, updated>>
    /\ UNCHANGED <<status, guild_id, owner, player, commands, commands_inner,
                   sessions, req, cb>>

\* a run loop that returns when the event stream ends
RecvEvent_break(s) ==
    /\ UNCHANGED <<cancelled, errors>>
    /\ UNCHANGED <<inputs, logged>>
    /\ status[s] = "running"
    /\ active[s]
    /\ IF events[s] # <<>>
       THEN /\ handle_event(s, Head(events[s]))
            /\ events' = [events EXCEPT ![s] = Tail(@)]
            /\ UNCHANGED <<status, guild_id, owner, player, commands, commands_inner,
                           sessions, req, cb, lyrics_embed, lyrics_tasks>>
       ELSE /\ events_closed[s] \/ s \notin running
            /\ Drop(s)
            /\ UNCHANGED <<inCall, notices, updated>>

\* Session::run, second select branch: self.events.recv(), if self.active
RecvEvent(s) ==
    /\ UNCHANGED <<lyrics_embed, lyrics_tasks, cancelled, errors>>
    /\ UNCHANGED <<inputs, logged>>
    /\ status[s] = "running"
    /\ active[s]
    /\ IF events[s] # <<>>
       THEN /\ handle_event(s, Head(events[s]))
            /\ events' = [events EXCEPT ![s] = Tail(@)]
       ELSE /\ events_closed[s] \/ s \notin running
            /\ shutdown_player(s)
            /\ UNCHANGED <<events, commands_closed, events_closed, inCall, notices,
                           playback_embed, updated>>
    /\ UNCHANGED <<status, guild_id, owner, player, commands, commands_inner,
                   sessions, req, cb>>

\* Session::run, third select branch: self.commands_inner_rx.recv()
RecvInner(s) ==
    /\ UNCHANGED <<updated, cancelled>>
    /\ UNCHANGED <<inputs, logged>>
    /\ status[s] = "running"
    /\ commands_inner[s] # <<>>
    /\ handle_command(s, Head(commands_inner[s]), commands[s], Tail(commands_inner[s]))

\* ---------------------------------------------------------------- producer
\* the audio producer pushes an event into the session's event stream
ProducerEmit(s, event) ==
    /\ UNCHANGED <<playback_embed, lyrics_embed, lyrics_tasks, updated, cancelled, errors>>
    /\ CountInput
    /\ UNCHANGED <<notices, logged>>
    /\ status[s] = "running"
    /\ s \in running
    /\ ~events_closed[s]
    /\ events' = [events EXCEPT ![s] = Append(@, event)]
    /\ UNCHANGED <<status, guild_id, owner, active, player, timeout_tx, commands,
                   commands_closed, events_closed, commands_inner, timers, running,
                   sessions, owners, inCall, req, cb>>

\* the audio producer ends on its own: its end of the event stream is dropped
ProducerExit(s) ==
    /\ UNCHANGED <<playback_embed, lyrics_embed, lyrics_tasks, updated, cancelled, errors>>
    /\ CountInput
    /\ UNCHANGED <<notices, logged>>
    /\ status[s] = "running"
    /\ s \in running
    /\ running' = running \ {s}
    /\ UNCHANGED <<status, guild_id, owner, active, player, timeout_tx, commands,
                   commands_closed, events, events_closed, commands_inner, timers,
                   sessions, owners, inCall, req, cb>>

\* ---------------------------------------------------------------- creation
\* the error Session::create returns before it starts the producer, "proceed"
\* if none
CreateGuard(tc, tok, jn) ==
    IF tc = "error" THEN Res("Serenity", "none")
    ELSE IF tc = "not_guild" THEN Res("InvalidChannel", "none")
    ELSE IF tok = "error" THEN Res("Storage", "none")
    ELSE IF tok = "none" THEN Res("Other", "No Spotify account linked to bot")
    ELSE IF jn = "error" THEN Res("JoinError", "none")
    ELSE Res("proceed", "none")

\* a create that reports every producer failure as an authentication failure
CreatePlayerError_always_auth(why) == Res("AuthenticationFailed", why)

\* the Err arm of Player::create in Session::create
CreatePlayerError(why) ==
    IF why = "BadCredentials" THEN Res("AuthenticationFailed", why)
    ELSE Res("Librespot", why)

FreeSessions == {s \in SessionIds : status[s] = "free"}
NewSession == CHOOSE s \in FreeSessions : \A r \in FreeSessions : s <= r

\* Session::create up to the call of Player::create: the handle and its queue
\* exist, the voice call is joined and the disconnect callbacks are registered
CreateBegin(u, g, tc, tok, jn) ==
    IF CreateGuard(tc, tok, jn).kind # "proceed"
    THEN /\ req' = [req EXCEPT ![u] = Done("create", CreateGuard(tc, tok, jn))]
         /\ UNCHANGED <<status, guild_id, owner, inCall>>
    ELSE /\ FreeSessions # {}
         /\ status' = [status EXCEPT ![NewSession] = "creating"]
         /\ guild_id' = [guild_id EXCEPT ![NewSession] = g]
         /\ owner' = [owner EXCEPT ![NewSession] = u]
         /\ inCall' = [inCall EXCEPT ![g] = TRUE]
         /\ req' = [req EXCEPT ![u] = [pc |-> "creating", op |-> "create",
                                       sid |-> NewSession, result |-> NoResult]]

\* SessionHandle::reactivate: send Reactivate and wait for the reply
SendReactivate(u, s) ==
    IF ~is_valid(s)
    THEN /\ req' = [req EXCEPT ![u] = Done("reactivate", Res("SendError", "none"))]
         /\ UNCHANGED commands
    ELSE /\ QueueRoom(commands[s])
         /\ commands' = [commands EXCEPT ![s] = Append(@, Cmd("Reactivate", u))]
         /\ req' = [req EXCEPT ![u] = [pc |-> "waiting", op |-> "reactivate", sid |-> s,
                                       result |-> NoResult]]

\* the join command: a user who owns no session asks for the session of guild g;
\* the guild's session is reactivated if there is one and created otherwise
JoinCommand(u, g) ==
    /\ UNCHANGED <<playback_embed, lyrics_embed, lyrics_tasks, updated, cancelled, errors>>
    /\ CountInput
    /\ UNCHANGED <<notices, logged>>
    /\ req[u].pc \in {"idle", "done"}
    /\ u = FirstUser \/ req[FirstUser].pc # "idle"
    /\ g = FirstGuild \/ FreeSessions # SessionIds
    /\ get_session_owner(u) = None
    /\ IF get_session_guild(g) = None
       THEN /\ \E tc \in TextChannelOutcomes, tok \in TokenOutcomes, jn \in JoinOutcomes :
                    CreateBegin(u, g, tc, tok, jn)
            /\ UNCHANGED commands
       ELSE /\ SendReactivate(u, get_session_guild(g))
            /\ UNCHANGED <<status, guild_id, owner, inCall>>
    /\ UNCHANGED <<active, player, timeout_tx, commands_closed, events, events_closed,
                   commands_inner, timers, running, sessions, owners, cb>>

\* a Session::create that does not start the idle timer
CreateFinish_no_timer(u, po) ==
    /\ UNCHANGED <<updated, cancelled, errors>>
    /\ UNCHANGED <<inputs, notices, logged>>
    /\ req[u].pc = "creating"
    /\ IF po # "ok"
       THEN /\ inCall' = [inCall EXCEPT ![guild_id[req[u].sid]] = FALSE]
            /\ status' = [status EXCEPT ![req[u].sid] = "failed"]
            /\ guild_id' = [guild_id EXCEPT ![req[u].sid] = NoGuild]
            /\ owner' = [owner EXCEPT ![req[u].sid] = NoUser]
            /\ commands' = [commands EXCEPT ![req[u].sid] = <<>>]
            /\ commands_closed' = [commands_closed EXCEPT ![req[u].sid] = TRUE]
            /\ cb' = [cb EXCEPT ![req[u].sid] = IdleCb]
            /\ req' = [req EXCEPT ![u] = Done("create", CreatePlayerError(po))]
            /\ UNCHANGED <<active, player, timeout_tx, timers, running, sessions, owners,
                           playback_embed, lyrics_embed, lyrics_tasks>>
       ELSE /\ player' = [player EXCEPT ![req[u].sid] = 1]
            /\ running' = running \cup {req[u].sid}
            /\ active' = [active EXCEPT ![req[u].sid] = TRUE]
            /\ playback_embed' = [playback_embed EXCEPT ![req[u].sid] = None]
            /\ lyrics_embed' = [lyrics_embed EXCEPT ![req[u].sid] = None]
            /\ UNCHANGED lyrics_tasks
            /\ status' = [status EXCEPT ![req[u].sid] = "running"]
            /\ sessions' = insert_guild(sessions, guild_id[req[u].sid], req[u].sid)
            /\ owners' = insert_owner(owners, u, req[u].sid)
            /\ req' = [req EXCEPT ![u] = Done("create", Res("Ok", "none"))]
            /\ UNCHANGED <<inCall, guild_id, owner, commands, commands_closed, cb,
                           timers, timeout_tx>>
    /\ UNCHANGED <<events, events_closed, commands_inner>>

\* a create that returns the producer's error without leaving the call
CreateFinish_no_leave(u, po) ==
    /\ UNCHANGED <<updated, cancelled, errors>>
    /\ UNCHANGED <<inputs, notices, logged>>
    /\ req[u].pc = "creating"
    /\ IF po # "ok"
       THEN /\ inCall' = inCall
            /\ status' = [status EXCEPT ![req[u].sid] = "failed"]
            /\ guild_id' = [guild_id EXCEPT ![req[u].sid] = NoGuild]
            /\ owner' = [owner EXCEPT ![req[u].sid] = NoUser]
            /\ commands' = [commands EXCEPT ![req[u].sid] = <<>>]
            /\ commands_closed' = [commands_closed EXCEPT ![req[u].sid] = TRUE]
            /\ cb' = [cb EXCEPT ![req[u].sid] = IdleCb]
            /\ req' = [req EXCEPT ![u] = Done("create", CreatePlayerError(po))]
            /\ UNCHANGED <<active, player, timeout_tx, timers, running, sessions, owners,
                           playback_embed, lyrics_embed, lyrics_tasks>>
       ELSE /\ player' = [player EXCEPT ![req[u].sid] = 1]
            /\ running' = running \cup {req[u].sid}
            /\ active' = [active EXCEPT ![req[u].sid] = TRUE]
            /\ playback_embed' = [playback_embed EXCEPT ![req[u].sid] = None]
            /\ lyrics_embed' = [lyrics_embed EXCEPT ![req[u].sid] = None]
            /\ UNCHANGED lyrics_tasks
            /\ start_timeout(req[u].sid)
            /\ status' = [status EXCEPT ![req[u].sid] = "running"]
            /\ sessions' = insert_guild(sessions, guild_id[req[u].sid], req[u].sid)
            /\ owners' = insert_owner(owners, u, req[u].sid)
            /\ req' = [req EXCEPT ![u] = Done("create", Res("Ok", "none"))]
            /\ UNCHANGED <<inCall, guild_id, owner, commands, commands_closed, cb>>
    /\ UNCHANGED <<events, events_closed, commands_inner>>

\* Session::create from the return of Player::create.  On an error the call is
\* left and the error returned.  Otherwise the session starts active with its
\* idle timer started and its run loop spawned, and the manager registers the
\* returned handle under the guild and the owner.
CreateFinish(u, po) ==
    /\ UNCHANGED <<updated, cancelled, errors>>
    /\ UNCHANGED <<inputs, notices, logged>>
    /\ req[u].pc = "creating"
    /\ IF po # "ok"
       THEN /\ inCall' = [inCall EXCEPT ![guild_id[req[u].sid]] = FALSE]
            /\ status' = [status EXCEPT ![req[u].sid] = "failed"]
            /\ guild_id' = [guild_id EXCEPT ![req[u].sid] = NoGuild]
            /\ owner' = [owner EXCEPT ![req[u].sid] = NoUser]
            /\ commands' = [commands EXCEPT ![req[u].sid] = <<>>]
            /\ commands_closed' = [commands_closed EXCEPT ![req[u].sid] = TRUE]
            /\ cb' = [cb EXCEPT ![req[u].sid] = IdleCb]
            /\ req' = [req EXCEPT ![u] = Done("create", CreatePlayerError(po))]
            /\ UNCHANGED <<active, player, timeout_tx, timers, running, sessions, owners,
                           playback_embed, lyrics_embed, lyrics_tasks>>
       ELSE /\ player' = [player EXCEPT ![req[u].sid] = 1]
            /\ running' = running \cup {req[u].sid}
            /\ active' = [active EXCEPT ![req[u].sid] = TRUE]
            /\ playback_embed' = [playback_embed EXCEPT ![req[u].sid] = None]
            /\ lyrics_embed' = [lyrics_embed EXCEPT ![req[u].sid] = None]
            /\ UNCHANGED lyrics_tasks
            /\ start_timeout(req[u].sid)
            /\ status' = [status EXCEPT ![req[u].sid] = "running"]
            /\ sessions' = insert_guild(sessions, guild_id[req[u].sid], req[u].sid)
            /\ owners' = insert_owner(owners, u, req[u].sid)
            /\ req' = [req EXCEPT ![u] = Done("create", Res("Ok", "none"))]
            /\ UNCHANGED <<inCall, guild_id, owner, commands, commands_closed, cb>>
    /\ UNCHANGED <<events, events_closed, commands_inner>>

\* ---------------------------------------------------------------- transport callbacks
\* the handle is registered with the call for DriverDisconnect and ClientDisconnect
Registered(s) == status[s] \in {"creating", "running"}

\* SessionHandle::act on DriverDisconnect: disconnect() through the handle
DriverDisconnect(s) ==
    /\ UNCHANGED <<playback_embed, lyrics_embed, lyrics_tasks, updated, cancelled, errors>>
    /\ CountInput
    /\ UNCHANGED <<notices, logged>>
    /\ Registered(s)
    /\ is_valid(s)
    /\ QueueRoom(commands[s])
    /\ commands' = [commands EXCEPT ![s] = Append(@, Cmd("Disconnect", NoUser))]
    /\ UNCHANGED <<status, guild_id, owner, active, player, timeout_tx,
                   commands_closed, events, events_closed, commands_inner, timers,
                   running, sessions, owners, inCall, req, cb>>

\* SessionHandle::disconnect by a caller that holds a handle of s, stale or
\* not: the Disconnect is sent, and a send that fails on the closed endpoint is
\* logged and nothing is returned to the caller
SessionHandle_disconnect(s) ==
    /\ UNCHANGED <<playback_embed, lyrics_embed, lyrics_tasks, updated, cancelled, errors>>
    /\ CountInput
    /\ UNCHANGED notices
    /\ status[s] \in {"running", "dropped"}
    /\ IF is_valid(s)
       THEN /\ QueueRoom(commands[s])
            /\ commands' = [commands EXCEPT ![s] = Append(@, Cmd("Disconnect", NoUser))]
            /\ UNCHANGED logged
       ELSE /\ logged' = [logged EXCEPT ![s] = @ + 1]
            /\ UNCHANGED commands
    /\ UNCHANGED <<status, guild_id, owner, active, player, timeout_tx,
                   commands_closed, events, events_closed, commands_inner, timers,
                   running, sessions, owners, inCall, req, cb>>

\* SessionHandle::player by a command handler that has looked the session up:
\* GetPlayer is sent, and the reply is the producer handle the actor holds
SessionHandle_player(s) ==
    /\ UNCHANGED <<playback_embed, lyrics_embed, lyrics_tasks, updated, cancelled, errors>>
    /\ CountInput
    /\ UNCHANGED <<notices, logged>>
    /\ status[s] = "running"
    /\ is_valid(s)
    /\ QueueRoom(commands[s])
    /\ commands' = [commands EXCEPT ![s] = Append(@, Cmd("GetPlayer", NoUser))]
    /\ UNCHANGED <<status, guild_id, owner, active, player, timeout_tx,
                   commands_closed, events, events_closed, commands_inner, timers,
                   running, sessions, owners, inCall, req, cb>>

\* SessionHandle::create_playback_embed and SessionHandle::create_lyrics_embed
\* by a command handler that has looked the session up: the command is sent, and
\* a failed send is the Err the caller gets
SessionHandle_create_embed(s, kind) ==
    /\ CountInput
    /\ status[s] = "running"
    /\ IF is_valid(s)
       THEN /\ QueueRoom(commands[s])
            /\ commands' = [commands EXCEPT ![s] = Append(@, Cmd(kind, NoUser))]
       ELSE UNCHANGED commands
    /\ UNCHANGED <<status, guild_id, owner, active, player, timeout_tx,
                   commands_closed, events, events_closed, commands_inner, timers,
                   running, sessions, owners, inCall, req, cb, notices, logged,
                   playback_embed, lyrics_embed, lyrics_tasks, updated, cancelled,
                   errors>>

\* a callback on a closed handle that sends Disconnect all the same
act_invalid_sends(s, kind) ==
    /\ CountInput
    /\ status[s] \in {"running", "dropped"}
    /\ kind \notin cancelled[s]
    /\ ~is_valid(s)
    /\ cancelled' = [cancelled EXCEPT ![s] = @ \cup {kind}]
    /\ logged' = [logged EXCEPT ![s] = @ + 1]
    /\ UNCHANGED <<status, guild_id, owner, active, player, timeout_tx, commands,
                   commands_closed, events, events_closed, commands_inner, timers,
                   running, sessions, owners, inCall, req, cb, notices,
                   playback_embed, lyrics_embed, lyrics_tasks, updated, errors>>

\* EventHandler::act of a SessionHandle that is not valid: Event::Cancel, which
\* takes the handler off the call
act_invalid(s, kind) ==
    /\ CountInput
    /\ status[s] \in {"running", "dropped"}
    /\ kind \notin cancelled[s]
    /\ ~is_valid(s)
    /\ cancelled' = [cancelled EXCEPT ![s] = @ \cup {kind}]
    /\ UNCHANGED <<status, guild_id, owner, active, player, timeout_tx, commands,
                   commands_closed, events, events_closed, commands_inner, timers,
                   running, sessions, owners, inCall, req, cb, notices, logged,
                   playback_embed, lyrics_embed, lyrics_tasks, updated, errors>>

\* the sessions the manager holds a handle of, in either index
RegistrySessions == ({sessions[g] : g \in Guilds} \cup {owners[u] : u \in Users}) \ {None}

\* a shutdown_all that forgets the sessions that have no owner entry
shutdown_all_owners_only ==
    /\ UNCHANGED <<playback_embed, lyrics_embed, lyrics_tasks, updated, cancelled, errors>>
    /\ CountInput
    /\ UNCHANGED notices
    /\ commands' = [s \in SessionIds |->
                       IF s \in {owners[u] : u \in Users} /\ is_valid(s)
                       THEN Append(commands[s], Cmd("Disconnect", NoUser))
                       ELSE commands[s]]
    /\ logged' = [s \in SessionIds |->
                     IF s \in {owners[u] : u \in Users} /\ ~is_valid(s)
                     THEN logged[s] + 1
                     ELSE logged[s]]
    /\ UNCHANGED <<status, guild_id, owner, active, player, timeout_tx,
                   commands_closed, events, events_closed, commands_inner, timers,
                   running, sessions, owners, inCall, req, cb>>

\* SessionManager::shutdown_all, called by the unlink command:
\* SessionHandle::disconnect on the handle of every session of the registry
shutdown_all ==
    /\ UNCHANGED <<playback_embed, lyrics_embed, lyrics_tasks, updated, cancelled, errors>>
    /\ CountInput
    /\ UNCHANGED notices
    /\ \A s \in RegistrySessions : is_valid(s) => QueueRoom(commands[s])
    /\ commands' = [s \in SessionIds |->
                       IF s \in RegistrySessions /\ is_valid(s)
                       THEN Append(commands[s], Cmd("Disconnect", NoUser))
                       ELSE commands[s]]
    /\ logged' = [s \in SessionIds |->
                     IF s \in RegistrySessions /\ ~is_valid(s)
                     THEN logged[s] + 1
                     ELSE logged[s]]
    /\ UNCHANGED <<status, guild_id, owner, active, player, timeout_tx,
                   commands_closed, events, events_closed, commands_inner, timers,
                   running, sessions, owners, inCall, req, cb>>

\* SessionHandle::act on ClientDisconnect{user_id}: self.active() is asked first
ClientDisconnect(s, u) ==
    /\ UNCHANGED <<playback_embed, lyrics_embed, lyrics_tasks, updated, cancelled, errors>>
    /\ CountInput
    /\ UNCHANGED <<notices, logged>>
    /\ Registered(s)
    /\ cb[s].pc = "idle"
    /\ is_valid(s)
    /\ QueueRoom(commands[s])
    /\ commands' = [commands EXCEPT ![s] = Append(@, Cmd("GetActive", NoUser))]
    /\ cb' = [cb EXCEPT ![s] = [pc |-> "wait_active", user |-> u]]
    /\ UNCHANGED <<status, guild_id, owner, active, player, timeout_tx,
                   commands_closed, events, events_closed, commands_inner, timers,
                   running, sessions, owners, inCall, req>>

\* the callback was told the session is active and asks self.owner(); the send
\* fails on a closed endpoint and the callback returns
ClientDisconnectOwner(s) ==
    /\ UNCHANGED <<playback_embed, lyrics_embed, lyrics_tasks, updated, cancelled, errors>>
    /\ UNCHANGED <<inputs, notices, logged>>
    /\ cb[s].pc = "send_owner"
    /\ IF is_valid(s)
       THEN /\ QueueRoom(commands[s])
            /\ commands' = [commands EXCEPT ![s] = Append(@, Cmd("GetOwner", NoUser))]
            /\ cb' = [cb EXCEPT ![s].pc = "wait_owner"]
       ELSE /\ cb' = [cb EXCEPT ![s] = IdleCb]
            /\ UNCHANGED commands
    /\ UNCHANGED <<status, guild_id, owner, active, player, timeout_tx,
                   commands_closed, events, events_closed, commands_inner, timers,
                   running, sessions, owners, inCall, req>>

\* the callback was told its user is the owner and calls self.shutdown_player().
\* The ShutdownPlayer it sends is tagged with the participant that left; the
\* command in the code carries no user and its handler reads none.
ClientDisconnectShutdown(s) ==
    /\ UNCHANGED <<playback_embed, lyrics_embed, lyrics_tasks, updated, cancelled, errors>>
    /\ UNCHANGED <<inputs, notices, logged>>
    /\ cb[s].pc = "send_shutdown"
    /\ IF is_valid(s)
       THEN /\ QueueRoom(commands[s])
            /\ commands' = [commands EXCEPT ![s] = Append(@, Cmd("ShutdownPlayer", cb[s].user))]
       ELSE UNCHANGED commands
    /\ cb' = [cb EXCEPT ![s] = IdleCb]
    /\ UNCHANGED <<status, guild_id, owner, active, player, timeout_tx,
                   commands_closed, events, events_closed, commands_inner, timers,
                   running, sessions, owners, inCall, req>>

\* ---------------------------------------------------------------- specification
Next ==
    \/ \E u \in Users, g \in Guilds : JoinCommand(u, g)
    \/ \E u \in Users, po \in PlayerOutcomes : CreateFinish(u, po)
    \/ \E s \in SessionIds : RecvCommand(s)
    \/ \E s \in SessionIds : RecvEvent(s)
    \/ \E s \in SessionIds : RecvInner(s)
    \/ \E s \in SessionIds, i \in TimerIds : TimerExpire(s, i)
    \/ \E s \in SessionIds, e \in PlayerEvents : ProducerEmit(s, e)
    \/ \E s \in SessionIds : ProducerExit(s)
    \/ \E s \in SessionIds : DriverDisconnect(s)
    \/ \E s \in SessionIds : SessionHandle_disconnect(s)
    \/ shutdown_all
    \/ \E s \in SessionIds : SessionHandle_player(s)
    \/ \E s \in SessionIds, u \in Users : ClientDisconnect(s, u)
    \/ \E s \in SessionIds : ClientDisconnectOwner(s)
    \/ \E s \in SessionIds : ClientDisconnectShutdown(s)

Spec == Init /\ [][Next]_vars

\* The scheduling of one actor.  tokio::select! polls its ready branches in a
\* random order, so a branch that stays ready is taken sooner or later: the
\* receive of the external queue and the receive of the internal queue are each
\* weakly fair, and so is a timer task that waits for its tick.  The fair
\* specification leaves the environment LiveInputs inputs.
FairInit ==
    /\ NoSessions
    /\ inputs = MaxInputs - LiveInputs

Fairness ==
    /\ \A s \in SessionIds : WF_vars(RecvCommand(s))
    /\ \A s \in SessionIds : WF_vars(RecvInner(s))

FairSpec == FairInit /\ [][Next]_vars /\ Fairness

\* The sessions with their projections: the command handlers also create
\* playback and lyrics embeds, and the transport also calls the handlers of
\* handles that are no longer valid.
EmbedKinds == {"CreatePlaybackEmbed", "CreateLyricsEmbed"}

EmbedNext ==
    \/ Next
    \/ \E s \in SessionIds, k \in EmbedKinds : SessionHandle_create_embed(s, k)
    \/ \E s \in SessionIds, k \in CallbackKinds : act_invalid(s, k)

EmbedSpec == FairInit /\ [][EmbedNext]_vars

\* The first session has been created for the first user, and CHANNEL_CAPACITY
\* calls of SessionHandle::player have filled its external queue before its
\* actor received any of them; its first idle timer waits.
FullSession == 1
FullQueue == [k \in 1..CHANNEL_CAPACITY |-> Cmd("GetPlayer", NoUser)]

FullInit ==
    /\ status = [s \in SessionIds |-> IF s = FullSession THEN "running" ELSE "free"]
    /\ guild_id = [s \in SessionIds |-> IF s = FullSession THEN FirstGuild ELSE NoGuild]
    /\ owner = [s \in SessionIds |-> IF s = FullSession THEN FirstUser ELSE NoUser]
    /\ active = [s \in SessionIds |-> s = FullSession]
    /\ player = [s \in SessionIds |-> IF s = FullSession THEN 1 ELSE None]
    /\ timeout_tx = [s \in SessionIds |-> IF s = FullSession THEN 1 ELSE None]
    /\ commands = [s \in SessionIds |-> IF s = FullSession THEN FullQueue ELSE <<>>]
    /\ commands_closed = [s \in SessionIds |-> FALSE]
    /\ events = [s \in SessionIds |-> <<>>]
    /\ events_closed = [s \in SessionIds |-> FALSE]
    /\ commands_inner = [s \in SessionIds |-> <<>>]
    /\ timers = [s \in SessionIds |->
                    [i \in TimerIds |-> IF s = FullSession /\ i = 1 THEN "armed" ELSE "idle"]]
    /\ running = {FullSession}
    /\ sessions = [g \in Guilds |-> IF g = FirstGuild THEN FullSession ELSE None]
    /\ owners = [u \in Users |-> IF u = FirstUser THEN FullSession ELSE None]
    /\ inCall = [g \in Guilds |-> g = FirstGuild]
    /\ req = [u \in Users |-> IF u = FirstUser THEN Done("create", Res("Ok", "none"))
                               ELSE IdleReq]
    /\ cb = [s \in SessionIds |-> IdleCb]
    /\ notices = [s \in SessionIds |-> NoNotices]
    /\ logged = [s \in SessionIds |-> 0]
    /\ playback_embed = [s \in SessionIds |-> None]
    /\ lyrics_embed = [s \in SessionIds |-> None]
    /\ lyrics_tasks = [s \in SessionIds |-> {}]
    /\ updated = [s \in SessionIds |-> NoUpdate]
    /\ cancelled = [s \in SessionIds |-> {}]
    /\ errors = [s \in SessionIds |-> 0]
    /\ inputs = MaxInputs - FullInputs

FullSpec == FullInit /\ [][Next]_vars /\ Fairness

\* ---------------------------------------------------------------- registry steps
\* The registry at the granularity of its operations.  The manager is shared
\* by the command handlers and by every session actor, and the runtime is
\* tokio's multi-threaded one (#[tokio::main]), so a lookup of another task can
\* run between any two registry operations of an actor.  Each action below is
\* one registry operation together with the session code that makes it; a
\* session between the two removals of its Drop has the status "dropping".
LookupResult(op, s) == [pc |-> "done", op |-> op, sid |-> s, result |-> NoResult]

\* a session is created for u in g and its handle inserted under both keys
Registry_insert(u, g) ==
    /\ UNCHANGED <<playback_embed, lyrics_embed, lyrics_tasks, updated, cancelled, errors>>
    /\ get_session_owner(u) = None
    /\ get_session_guild(g) = None
    /\ FreeSessions # {}
    /\ g = FirstGuild \/ FreeSessions # SessionIds
    /\ status' = [status EXCEPT ![NewSession] = "running"]
    /\ guild_id' = [guild_id EXCEPT ![NewSession] = g]
    /\ owner' = [owner EXCEPT ![NewSession] = u]
    /\ active' = [active EXCEPT ![NewSession] = TRUE]
    /\ sessions' = insert_guild(sessions, g, NewSession)
    /\ owners' = insert_owner(owners, u, NewSession)
    /\ UNCHANGED <<player, timeout_tx, commands, commands_closed, events, events_closed,
                   commands_inner, timers, running, inCall, req, cb, notices, logged,
                   inputs>>

\* Session::shutdown_player: active = false and remove_session by the owner
Registry_shutdown_player(s) ==
    /\ UNCHANGED <<playback_embed, lyrics_embed, lyrics_tasks, updated, cancelled, errors>>
    /\ status[s] = "running"
    /\ active[s]
    /\ active' = [active EXCEPT ![s] = FALSE]
    /\ owners' = remove_session_owner(owners, owner[s])
    /\ UNCHANGED <<status, guild_id, owner, player, timeout_tx, commands,
                   commands_closed, events, events_closed, commands_inner, timers,
                   running, sessions, inCall, req, cb, notices, logged, inputs>>

\* Drop::drop, first registry operation: remove_session(SessionQuery::Guild(guild_id))
Drop_remove_guild(s) ==
    /\ UNCHANGED <<playback_embed, lyrics_embed, lyrics_tasks, updated, cancelled, errors>>
    /\ status[s] = "running"
    /\ status' = [status EXCEPT ![s] = "dropping"]
    /\ sessions' = remove_session_guild(sessions, guild_id[s])
    /\ UNCHANGED <<guild_id, owner, active, player, timeout_tx, commands,
                   commands_closed, events, events_closed, commands_inner, timers,
                   running, owners, inCall, req, cb, notices, logged, inputs>>

\* Drop::drop, second registry operation: remove_session(SessionQuery::Owner(owner))
Drop_remove_owner(s) ==
    /\ UNCHANGED <<playback_embed, lyrics_embed, lyrics_tasks, updated, cancelled, errors>>
    /\ status[s] = "dropping"
    /\ status' = [status EXCEPT ![s] = "dropped"]
    /\ owners' = remove_session_owner(owners, owner[s])
    /\ guild_id' = [guild_id EXCEPT ![s] = NoGuild]
    /\ owner' = [owner EXCEPT ![s] = NoUser]
    /\ active' = [active EXCEPT ![s] = FALSE]
    /\ UNCHANGED <<player, timeout_tx, commands, commands_closed, events,
                   events_closed, commands_inner, timers, running, sessions, inCall,
                   req, cb, notices, logged, inputs>>

\* a command handler of user u looks the guild g up: never blocks, never creates
Registry_lookup_guild(u, g) ==
    /\ UNCHANGED <<playback_embed, lyrics_embed, lyrics_tasks, updated, cancelled, errors>>
    /\ req' = [req EXCEPT ![u] = LookupResult("lookup_guild", get_session_guild(g))]
    /\ UNCHANGED <<status, guild_id, owner, active, player, timeout_tx, commands,
                   commands_closed, events, events_closed, commands_inner, timers,
                   running, sessions, owners, inCall, cb, notices, logged, inputs>>

\* a command handler of user u looks its own owner entry up
Registry_lookup_owner(u) ==
    /\ UNCHANGED <<playback_embed, lyrics_embed, lyrics_tasks, updated, cancelled, errors>>
    /\ req' = [req EXCEPT ![u] = LookupResult("lookup_owner", get_session_owner(u))]
    /\ UNCHANGED <<status, guild_id, owner, active, player, timeout_tx, commands,
                   commands_closed, events, events_closed, commands_inner, timers,
                   running, sessions, owners, inCall, cb, notices, logged, inputs>>

RegistryNext ==
    \/ \E u \in Users, g \in Guilds : Registry_insert(u, g)
    \/ \E s \in SessionIds : Registry_shutdown_player(s)
    \/ \E s \in SessionIds : Drop_remove_guild(s)
    \/ \E s \in SessionIds : Drop_remove_owner(s)
    \/ \E u \in Users, g \in Guilds : Registry_lookup_guild(u, g)
    \/ \E u \in Users : Registry_lookup_owner(u)

RegistrySpec == Init /\ [][RegistryNext]_vars

\* ---------------------------------------------------------------- properties
Live(s) == status[s] = "running"

\* the step in which the actor of s terminates and the session is dropped
Terminates(s) == status[s] = "running" /\ status'[s] = "dropped"

\* the actor of s takes the command at the head of its external queue, of the
\* given kind, and keeps running
Handles(s, kind) ==
    /\ status[s] = "running" /\ status'[s] = "running"
    /\ commands[s] # <<>>
    /\ Head(commands[s]).kind = kind
    /\ commands'[s] = Tail(commands[s])

\* every registry entry refers to a session whose actor runs
RegistryLive ==
    /\ \A g \in Guilds : sessions[g] # None => Live(sessions[g])
    /\ \A u \in Users : owners[u] # None => Live(owners[u])

\* when the actor of s terminates, the registry has no entry for the guild of s
\* and none for the owner s has at that moment
DropClean ==
    \A s \in SessionIds :
        Terminates(s) => sessions'[guild_id[s]] = None /\ owners'[owner[s]] = None

\* C1: whatever a session handled between its creation and its termination, once
\* its actor has terminated the registry has no entry for its guild and none for
\* its final owner, and no entry ever refers to a terminated session.
C1_DeregisteredOnTermination == []RegistryLive /\ [][DropClean]_vars

\* a session that changed owner by a reactivation has terminated and the
\* registry is empty
C1_Witness ==
    /\ \E s \in SessionIds : status[s] = "dropped"
    /\ \E u \in Users : req[u] = Done("reactivate", Res("Ok", "none"))
    /\ \A g \in Guilds : sessions[g] = None
    /\ \A u \in Users : owners[u] = None

\* C2: for every live session, the owner index holds an entry of the session's
\* owner that refers to the session if and only if the session is active.
C2_OwnerIndexedIffActive ==
    \A s \in SessionIds : Live(s) => (active[s] <=> owners[owner[s]] = s)

\* C3: at most one live session actor exists for a guild.
C3_OneLiveSessionPerGuild ==
    \A s, t \in SessionIds :
        Live(s) /\ Live(t) /\ guild_id[s] = guild_id[t] => s = t

\* C4: at most one live session has a given user as its active owner.
C4_OneActiveSessionPerOwner ==
    \A s, t \in SessionIds :
        Live(s) /\ Live(t) /\ active[s] /\ active[t] /\ owner[s] = owner[t] => s = t

\* the user whose Reactivate is at the head of the external queue of s
Caller(s) == Head(commands[s]).user

\* the reply the caller of the Reactivate just handled has received
Reply(s) == req'[Caller(s)].result

ReactivateNoEffect(s) ==
    /\ Reply(s) = Res("AlreadyActive", "none")
    /\ owner'[s] = owner[s] /\ player'[s] = player[s]
    /\ events'[s] = events[s] /\ events_closed'[s] = events_closed[s]
    /\ active'[s] = active[s] /\ running' = running
    /\ timeout_tx'[s] = timeout_tx[s] /\ timers'[s] = timers[s]
    /\ sessions' = sessions /\ owners' = owners

ActiveReactivateRejected ==
    \A s \in SessionIds :
        Handles(s, "Reactivate") /\ active[s] => ReactivateNoEffect(s)

\* C5: a Reactivate handled while the session is active is answered with
\* AlreadyActive and changes neither the owner, the producer handle, the event
\* stream, the active flag, the idle timer nor the registry.
C5_ReactivateActiveNoEffect == [][ActiveReactivateRejected]_vars

\* an active session has answered a Reactivate of another user with AlreadyActive
C5_Witness ==
    \E s \in SessionIds :
        /\ Live(s) /\ active[s] /\ owner[s] = "u1"
        /\ req["u2"] = Done("reactivate", Res("AlreadyActive", "none"))

ReactivateSwapped(s) ==
    /\ owner'[s] = Caller(s)
    /\ player'[s] # player[s]
    /\ events'[s] = <<>> /\ ~events_closed'[s]
    /\ active'[s]
    /\ s \in running'

ReactivateUntouched(s) ==
    /\ owner'[s] = owner[s] /\ player'[s] = player[s]
    /\ events'[s] = events[s] /\ events_closed'[s] = events_closed[s]
    /\ ~active'[s]

ReactivateAllOrNothing ==
    \A s \in SessionIds :
        Handles(s, "Reactivate") /\ ~active[s] =>
            /\ Reply(s).kind \in {"Ok", "Storage", "Other", "Librespot"}
            /\ IF Reply(s).kind = "Ok" THEN ReactivateSwapped(s) ELSE ReactivateUntouched(s)

\* C6: a Reactivate of an inactive session that fails (credential fetch failed,
\* no credential, producer not started) leaves owner, producer handle, event
\* stream and active flag as they were; the four change, together, exactly when
\* the producer has started.
C6_ReactivateAllOrNothing == [][ReactivateAllOrNothing]_vars

\* an inactive session has failed a Reactivate of another user because the
\* producer did not start, and still has its previous owner
C6_Witness ==
    \E s \in SessionIds :
        /\ Live(s) /\ ~active[s] /\ owner[s] = "u1" /\ player[s] = 1
        /\ req["u2"] = Done("reactivate", Res("Librespot", "Unavailable"))

\* C7: a Reactivate whose producer rejects the credentials is answered with
\* AuthenticationFailed.
C7_ReactivateBadCredentials ==
    \A u \in Users :
        req[u].op = "reactivate" /\ req[u].result.why = "BadCredentials"
            => req[u].result.kind = "AuthenticationFailed"

\* C8: a session creation whose producer fails returns AuthenticationFailed if
\* the failure is of the bad-credentials kind and the producer error, never
\* AuthenticationFailed, for every other failure.
C8_CreateClassifiesProducerError ==
    \A u \in Users :
        req[u].pc = "done" /\ req[u].op = "create" =>
            /\ req[u].result.why = "BadCredentials"
                   => req[u].result.kind = "AuthenticationFailed"
            /\ req[u].result.why \in PlayerOutcomes \ {"ok", "BadCredentials"}
                   => req[u].result.kind = "Librespot"
            /\ req[u].result.kind = "AuthenticationFailed"
                   => req[u].result.why = "BadCredentials"

\* one creation has failed on bad credentials and another on a different
\* producer failure
C8_Witness ==
    /\ req["u1"] = Done("create", Res("AuthenticationFailed", "BadCredentials"))
    /\ req["u2"] = Done("create", Res("Librespot", "Unavailable"))

\* the step in which the producer of s is shut down
ShutsDown(s) == Live(s) /\ status'[s] = "running" /\ active[s] /\ ~active'[s]

ShutdownThenReactivate ==
    \A s \in SessionIds :
        /\ ShutsDown(s) => player'[s] = player[s] /\ owner'[s] = owner[s]
        /\ Handles(s, "Reactivate") /\ ~active[s] /\ Reply(s).kind = "Ok" =>
               /\ active'[s]
               /\ owner'[s] = Caller(s)
               /\ player'[s] # player[s]

\* C9: the shutdown of the producer keeps the producer handle, and the
\* Reactivate(new_owner) that succeeds on the session afterwards leaves it
\* active, owned by new_owner and with a producer handle other than the one it
\* held before.
C9_ShutdownThenReactivate == [][ShutdownThenReactivate]_vars

\* a session whose owner left has been reactivated by another user right after
\* the shutdown and holds its second producer
C9_Witness ==
    \E s \in SessionIds :
        /\ Live(s) /\ active[s] /\ owner[s] = "u2" /\ player[s] = 2
        /\ commands[s] = <<>>
        /\ req["u2"] = Done("reactivate", Res("Ok", "none"))

TimedOutByCurrentTimer ==
    \A s \in SessionIds :
        notices'[s].inactive > notices[s].inactive /\ timeout_tx[s] # None =>
            /\ commands_inner[s] # <<>>
            /\ Head(commands_inner[s]).gen = timeout_tx[s]

\* C10: a session whose idle timer has been started again is terminated by a
\* timeout only if the DisconnectTimedOut comes from the timer task of the most
\* recent start, never from the task that start superseded.
C10_OnlyCurrentTimerTerminates == [][TimedOutByCurrentTimer]_vars

\* the session of s is disconnected for inactivity in this step
TimesOut(s) == notices'[s].inactive > notices[s].inactive

PlayCancelsTimer ==
    \A s \in SessionIds :
        TimesOut(s) /\ ~events_closed[s] => timeout_tx[s] # None

\* C11: a session whose idle timer a Play event has cancelled, and that has not
\* started its timer again, is not disconnected for inactivity.
C11_PlayCancelsTimer == [][PlayCancelsTimer]_vars

\* the idle-timer tasks of s that wait, neither cancelled nor expired
LiveTimers(s) == {i \in TimerIds : timers[s][i] = "armed"}

\* C12: a session has at most one live idle timer, and it is the one whose
\* cancellation token the session holds.
C12_OneLiveTimer ==
    \A s \in SessionIds :
        /\ Cardinality(LiveTimers(s)) <= 1
        /\ LiveTimers(s) # {} => timeout_tx[s] \in LiveTimers(s)

\* a session that never timed out has shut its producer down, which started the
\* idle timer anew while the timer of the creation was waiting, and one timer waits
C12_Witness ==
    \E s \in SessionIds :
        /\ Live(s) /\ ~active[s]
        /\ commands_inner[s] = <<>>
        /\ timeout_tx[s] # None
        /\ LiveTimers(s) = {timeout_tx[s]}

\* the creation of user u returns an error in this step
CreateFails(u) ==
    /\ req'[u] # req[u]
    /\ req'[u].pc = "done" /\ req'[u].op = "create"
    /\ req'[u].result.kind # "Ok"

\* the creation failed before the call was joined: nothing was joined or spawned
FailsBeforeJoin(u) ==
    /\ req'[u].result.kind \in {"Serenity", "InvalidChannel", "Storage", "Other", "JoinError"}
    /\ inCall' = inCall
    /\ status' = status
    /\ running' = running

\* the producer failed to start after the call was joined: the call is left and
\* no run loop is spawned
FailsAfterJoin(u, s) ==
    /\ req'[u].result.kind \in {"AuthenticationFailed", "Librespot"}
    /\ ~inCall'[guild_id[s]]
    /\ status'[s] = "failed"
    /\ s \notin running'
    /\ \A g \in Guilds : sessions'[g] # s
    /\ \A v \in Users : owners'[v] # s

FailedCreateLeavesNothing ==
    /\ \A u \in Users :
           CreateFails(u) =>
               IF req[u].pc = "creating" THEN FailsAfterJoin(u, req[u].sid)
               ELSE FailsBeforeJoin(u)
    /\ \A s \in SessionIds : status[s] = "failed" => status'[s] = "failed"

\* C13: a session creation that fails returns its error, spawns no run loop and
\* leaves no voice connection: a failure before the join joins nothing, and a
\* producer that fails to start after the join has the call left.
C13_FailedCreateLeavesNothing == [][FailedCreateLeavesNothing]_vars

\* a creation has failed on a producer that did not start, and the bot is in no call
C13_Witness ==
    /\ req["u1"] = Done("create", Res("Librespot", "Unavailable"))
    /\ \E s \in SessionIds : status[s] = "failed"
    /\ \A g \in Guilds : ~inCall[g]
    /\ \A s \in SessionIds : ~Live(s)

OwnerLeft ==
    \A s \in SessionIds :
        /\ Handles(s, "GetActive") /\ active[s] /\ cb[s].pc = "wait_active"
               => cb'[s].pc = "send_owner"
        /\ Handles(s, "GetOwner") /\ owner[s] = cb[s].user /\ cb[s].pc = "wait_owner"
               => cb'[s].pc = "send_shutdown"
        /\ Handles(s, "ShutdownPlayer") =>
               /\ ~active'[s]
               /\ owners'[owner[s]] = None
               /\ owner'[s] = owner[s]
               /\ sessions' = sessions
               /\ s \notin running'

\* C14: when the owner of an active session leaves, the callback is answered
\* that the session is active and that the participant is its owner and goes on
\* to ShutdownPlayer; handling it leaves the session inactive, the owner index
\* without an entry for the owner, the guild index as it was and the actor running.
C14_OwnerLeftShutsDown == [][OwnerLeft]_vars

\* the session of u1 is live, inactive, registered under its guild and not under u1
C14_Witness ==
    \E s \in SessionIds :
        /\ Live(s) /\ ~active[s] /\ owner[s] = "u1"
        /\ owners["u1"] = None
        /\ sessions[guild_id[s]] = s
        /\ s \notin running
        /\ cb[s] = IdleCb /\ commands[s] = <<>>

\* the actor of s takes a Disconnect from the head of its external queue
TakesDisconnect(s) ==
    /\ status[s] = "running"
    /\ commands[s] # <<>>
    /\ Head(commands[s]).kind = "Disconnect"
    /\ Len(commands'[s]) < Len(commands[s])
    /\ ~TimesOut(s)

\* the full Disconnect effect and the teardown that follows it
Disconnected(s) ==
    /\ Terminates(s)
    /\ ~inCall'[guild_id[s]]
    /\ commands_closed'[s] /\ events_closed'[s]
    /\ timeout_tx'[s] = None /\ \A i \in TimerIds : timers'[s][i] = "idle"
    /\ sessions'[guild_id[s]] = None
    /\ owners'[owner[s]] = None
    /\ s \notin running'

\* the transport can report the forced disconnect of a live session whose
\* endpoint is open, whatever its active flag and its owner
ForcedDisconnectAccepted ==
    \A s \in SessionIds :
        Live(s) /\ is_valid(s) /\ inputs < MaxInputs => ENABLED DriverDisconnect(s)

ForcedDisconnectSent ==
    \A s \in SessionIds :
        DriverDisconnect(s) => commands'[s] = Append(commands[s], Cmd("Disconnect", NoUser))

\* C15: the forced disconnect of a live session is sent to it as a Disconnect
\* whatever its active flag and owner, and the actor that takes the Disconnect
\* leaves the call, terminates and removes the guild entry and the owner entry.
C15_ForcedDisconnect ==
    /\ []ForcedDisconnectAccepted
    /\ [][ForcedDisconnectSent /\ \A s \in SessionIds : TakesDisconnect(s) => Disconnected(s)]_vars

\* an inactive session has been terminated by a Disconnect: it sent no notice,
\* the bot is in no call and the registry is empty
C15_Witness ==
    /\ \E s \in SessionIds : status[s] = "dropped" /\ notices[s] = NoNotices /\ logged[s] = 0
    /\ \A s \in SessionIds : status[s] \in {"dropped", "free"}
    /\ \A g \in Guilds : ~inCall[g] /\ sessions[g] = None
    /\ \A u \in Users : owners[u] = None
    /\ req["u2"] = Done("reactivate", Res("Librespot", "BadCredentials"))

\* the producer of an active session is shut down for a participant that left
\* only if that participant is the owner the session has at that moment
ShutdownForOwnerOnly ==
    \A s \in SessionIds :
        Handles(s, "ShutdownPlayer") /\ active[s] => owner[s] = Head(commands[s]).user

\* C16: the ShutdownPlayer of the participant-left callback deactivates an
\* active session only if the participant that left is the owner of the session
\* when the ShutdownPlayer takes effect.
C16_ShutdownForOwnerOnly == [][ShutdownForOwnerOnly]_vars

\* the state of session s is the same before and after
SessionStateUnchanged(s) ==
    /\ status'[s] = status[s] /\ guild_id'[s] = guild_id[s] /\ owner'[s] = owner[s]
    /\ active'[s] = active[s] /\ player'[s] = player[s]
    /\ timeout_tx'[s] = timeout_tx[s] /\ timers'[s] = timers[s]
    /\ commands'[s] = commands[s] /\ commands_inner'[s] = commands_inner[s]
    /\ events'[s] = events[s]
    /\ commands_closed'[s] = commands_closed[s] /\ events_closed'[s] = events_closed[s]
    /\ notices'[s] = notices[s]

\* the state of session s, the registry and the calls are the same before and after
SessionUnchanged(s) ==
    /\ SessionStateUnchanged(s)
    /\ sessions' = sessions /\ owners' = owners /\ inCall' = inCall

DisconnectAfterGone ==
    \A s \in SessionIds :
        /\ logged'[s] > logged[s] => ~is_valid(s) /\ SessionUnchanged(s)
        /\ status[s] = "dropped" =>
               /\ status'[s] = "dropped"
               /\ commands'[s] = <<>>
               /\ notices'[s] = notices[s]

\* C17: a Disconnect sent through the handle of a session whose actor is gone
\* fails on the closed endpoint, which is only logged: no session state and no
\* registry entry changes, no message is queued and the teardown does not run
\* a second time.
C17_DisconnectIdempotent == [][DisconnectAfterGone]_vars

\* a session that a Disconnect terminated has been sent another one
C17_Witness ==
    \E s \in SessionIds :
        /\ status[s] = "dropped" /\ notices[s] = NoNotices
        /\ logged[s] = 1
        /\ \A g \in Guilds : sessions[g] = None

CleanedUp(s) ==
    /\ timeout_tx'[s] = None
    /\ LiveTimers(s)' = {}
    /\ sessions'[guild_id[s]] = None
    /\ owners'[owner[s]] = None

CleanupOnce ==
    \A s \in SessionIds :
        /\ status[s] = "running" /\ status'[s] # "running" => Terminates(s) /\ CleanedUp(s)
        /\ status[s] = "dropped" => status'[s] = "dropped" /\ timers'[s] = timers[s]

EndpointsClosed ==
    \A s \in SessionIds :
        status[s] = "dropped" =>
            /\ commands_closed[s] /\ events_closed[s]
            /\ ~is_valid(s)
            /\ commands[s] = <<>> /\ events[s] = <<>> /\ commands_inner[s] = <<>>

NothingAfterTermination ==
    \A s \in SessionIds :
        /\ Terminates(s) => commands_closed'[s] /\ events_closed'[s]
        /\ status[s] = "dropped" => SessionStateUnchanged(s)

\* C19: the command endpoint and the producer-event endpoint of a terminated
\* session are closed; nothing sent afterwards is queued or handled, and the
\* state of the terminated session never changes.
C19_ClosedAfterTermination == []EndpointsClosed /\ [][NothingAfterTermination]_vars

\* a session its idle timer terminated has refused a later send
C19_Witness ==
    \E s \in SessionIds :
        /\ status[s] = "dropped" /\ notices[s].inactive = 1
        /\ logged[s] >= 1
        /\ ~is_valid(s)

\* C20, as claimed: a live session is active exactly when its producer is
\* started and neither shut down nor ended.
C20_ActiveIffProducer ==
    \A s \in SessionIds : Live(s) => (active[s] <=> s \in running)

InactiveHasNoProducer ==
    \A s \in SessionIds : Live(s) /\ ~active[s] => s \notin running

\* active and the producer cease to agree only when the producer ends by itself
DisagreeOnlyByProducerExit ==
    \A s \in SessionIds :
        /\ Live(s) /\ status'[s] = "running"
        /\ active[s] <=> s \in running
        /\ ~(active'[s] <=> s \in running')
        => /\ active[s] /\ active'[s]
           /\ s \notin running'
           /\ player'[s] = player[s] /\ events'[s] = events[s]

\* C20, amended: an inactive live session never has a running producer, and an
\* active one has a running producer except from the moment its producer ends
\* by itself until the actor handles the end of the event stream.
C20_ActiveUnlessProducerEnded ==
    []InactiveHasNoProducer /\ [][DisagreeOnlyByProducerExit]_vars

\* an active session whose producer has ended and whose actor has not yet
\* handled the end of the event stream
C20_Witness ==
    \E s \in SessionIds :
        /\ Live(s) /\ active[s] /\ s \notin running
        /\ events[s] = <<>> /\ ~events_closed[s]

\* a query of the participant-left callback waits for its reply
QueryWaiting(s) == cb[s].pc \in {"wait_active", "wait_owner"}

\* the request the waiting query has sent
QueryKind(s) == IF cb[s].pc = "wait_active" THEN "GetActive" ELSE "GetOwner"

\* a query waits only while its request is queued at a session whose queue exists
QueryPending ==
    \A s \in SessionIds :
        QueryWaiting(s) =>
            /\ status[s] \in {"creating", "running"}
            /\ \E i \in 1..Len(commands[s]) : commands[s][i].kind = QueryKind(s)

\* the queue of s is dropped with the requests in it: the actor terminates or
\* the creation fails
QueueDropped(s) == status[s] \in {"creating", "running"} /\ status'[s] \in {"failed", "dropped"}

\* The reply of active() is the flag and the reply of owner() is the owner the
\* actor holds when it handles the request; a query whose request is dropped
\* unanswered, or that finds the endpoint closed, fails, and the callback that
\* made it returns; and nothing else ends the wait.
QueryAnswered ==
    \A s \in SessionIds :
        /\ Handles(s, "GetActive") =>
               cb'[s] = IF active[s] THEN [cb[s] EXCEPT !.pc = "send_owner"] ELSE IdleCb
        /\ Handles(s, "GetOwner") =>
               cb'[s] = IF owner[s] = cb[s].user THEN [cb[s] EXCEPT !.pc = "send_shutdown"]
                        ELSE IdleCb
        /\ QueryWaiting(s) /\ QueueDropped(s) => cb'[s] = IdleCb
        /\ QueryWaiting(s) /\ cb'[s] # cb[s] => Handles(s, QueryKind(s)) \/ QueueDropped(s)
        /\ cb[s].pc = "send_owner" /\ ~is_valid(s) /\ cb'[s] # cb[s]
             /\ status'[s] = status[s] =>
               cb'[s] = IdleCb /\ commands'[s] = commands[s]

\* C21: a query sent through a handle completes: its reply is the value the
\* actor holds when it handles the request, it fails if the endpoint is closed
\* or if the actor terminates with the request still queued, and a query queued
\* at a running actor does not wait forever.
C21_QueriesComplete ==
    /\ []QueryPending
    /\ [][QueryAnswered]_vars
    /\ \A s \in SessionIds : (Live(s) /\ QueryWaiting(s)) ~> ~QueryWaiting(s)

\* both queries of a callback were answered with the values held: the session
\* is active and the participant that left is its owner
C21_Witness ==
    \E s \in SessionIds : Live(s) /\ cb[s].pc = "send_shutdown" /\ cb[s].user = owner[s]

\* the owner index holds an entry of s while the guild index holds none
HalfRemoved(s) ==
    /\ status[s] \in {"running", "dropping"}
    /\ owners[owner[s]] = s
    /\ sessions[guild_id[s]] # s

DisconnectQueued(s) == \E i \in 1..Len(commands[s]) : commands[s][i].kind = "Disconnect"

\* shutdown_all leaves a Disconnect queued at every live session of the
\* registry whose endpoint is open, and changes nothing else of any session
ShutdownAllSends ==
    shutdown_all =>
        \A s \in SessionIds :
            /\ s \in RegistrySessions /\ Live(s) /\ ~commands_closed[s] =>
                   /\ Len(commands'[s]) = Len(commands[s]) + 1
                   /\ commands'[s][Len(commands'[s])].kind = "Disconnect"
            /\ status'[s] = status[s] /\ active'[s] = active[s]

\* C23: shutdown_all sends a Disconnect to every session that is live in the
\* registry when it is called; a live session with a Disconnect queued, or with
\* its endpoint already closed, terminates, and a terminated session has no
\* entry in either index.
C23_ShutdownAll ==
    /\ [][ShutdownAllSends]_vars
    /\ \A s \in SessionIds :
           (Live(s) /\ (DisconnectQueued(s) \/ commands_closed[s])) ~> (status[s] = "dropped")
    /\ [](\A s \in SessionIds : status[s] = "dropped" => s \notin RegistrySessions)

\* two joins and one shutdown_all: both sessions of the registry have their
\* Disconnect queued
C23_Witness ==
    /\ inputs = (MaxInputs - LiveInputs) + 3
    /\ \E s, r \in SessionIds :
           /\ s # r
           /\ Live(s) /\ Live(r)
           /\ {s, r} \subseteq RegistrySessions
           /\ DisconnectQueued(s) /\ DisconnectQueued(r)

\* the external queue of s holds CHANNEL_CAPACITY pending commands
ExternalFull(s) == Len(commands[s]) = CHANNEL_CAPACITY

\* a timer that waits can always send: its message needs room in the internal
\* queue only, which the commands of the handles never fill
SelfSendEnabled ==
    \A s \in SessionIds, i \in TimerIds :
        Live(s) /\ timers[s][i] = "armed" => ENABLED TimerExpire(s, i)

\* the expiry of a timer puts its DisconnectTimedOut in the internal queue and
\* leaves the external queue as it is; the actor that takes a message of the
\* internal queue terminates
ThroughInternalQueue ==
    \A s \in SessionIds :
        /\ (\E i \in TimerIds : timers[s][i] = "armed" /\ timers'[s][i] = "idle"
                                 /\ timeout_tx'[s] = timeout_tx[s] /\ status'[s] = "running"
                                 /\ commands_inner'[s] # commands_inner[s])
               => /\ commands'[s] = commands[s]
                  /\ Len(commands_inner'[s]) = Len(commands_inner[s]) + 1
                  /\ commands_inner'[s][Len(commands_inner'[s])].kind = "DisconnectTimedOut"
        /\ \A k \in 1..Len(commands[s]) : commands[s][k].kind # "DisconnectTimedOut"
        /\ Live(s) /\ Len(commands_inner'[s]) < Len(commands_inner[s]) => Terminates(s)

\* C24: the DisconnectTimedOut of a timer that expires goes through the internal
\* queue, which the timer can always send to, also while the external queue is
\* full, and a queued DisconnectTimedOut is handled and terminates the session
\* whatever the external queue holds or receives.
C24_TimeoutNotStarved ==
    /\ []SelfSendEnabled
    /\ [][ThroughInternalQueue]_vars
    /\ \A s \in SessionIds :
           (Live(s) /\ commands_inner[s] # <<>>) ~> (status[s] = "dropped")

\* the timer has expired while the external queue is full
C24_Witness ==
    \E s \in SessionIds :
        /\ Live(s) /\ ExternalFull(s)
        /\ commands_inner[s] # <<>>
        /\ Head(commands_inner[s]).kind = "DisconnectTimedOut"

\* two users' Reactivate are the next two commands of the inactive session s
ReactivateRace(s) ==
    /\ Live(s) /\ ~active[s]
    /\ Len(commands[s]) >= 2
    /\ commands[s][1].kind = "Reactivate" /\ commands[s][2].kind = "Reactivate"
    /\ commands[s][1].user # commands[s][2].user

\* the external queue is received in send order
ReceivedInSendOrder ==
    \A s \in SessionIds :
        /\ Live(s) /\ status'[s] = "running" /\ Len(commands'[s]) < Len(commands[s]) =>
               commands'[s] = Tail(commands[s])
        /\ Live(s) /\ Len(commands'[s]) > Len(commands[s]) =>
               SubSeq(commands'[s], 1, Len(commands[s])) = commands[s]

\* the Reactivate dequeued first wins: answered Ok, its user is the owner of the
\* now active session and the other Reactivate is the next command; a
\* Reactivate handled by an active session is answered AlreadyActive and
\* leaves the owner alone
FirstReactivateWins ==
    \A s \in SessionIds :
        /\ ReactivateRace(s) /\ status'[s] = "running" /\ commands'[s] # commands[s]
             /\ Len(commands'[s]) < Len(commands[s]) /\ active'[s] =>
               /\ Reply(s) = Res("Ok", "none")
               /\ owner'[s] = commands[s][1].user
               /\ Head(commands'[s]) = commands[s][2]
               /\ req'[commands[s][2].user] = req[commands[s][2].user]
        /\ Handles(s, "Reactivate") /\ active[s] =>
               /\ Reply(s) = Res("AlreadyActive", "none")
               /\ owner'[s] = owner[s] /\ active'[s]

\* C25: two users' Reactivate queued at one inactive session are handled one
\* after the other in the order they were sent: the first, if it succeeds,
\* makes its user the owner, and the second then finds the session active, is
\* answered AlreadyActive and leaves the owner as the first set it.
C25_FirstReactivateWins == [][ReceivedInSendOrder /\ FirstReactivateWins]_vars

\* the race is being decided: the first user's call has returned Ok and made
\* it the owner of the session's second producer, and the second user's
\* Reactivate is the next command, its caller still waiting
C25_Witness ==
    \E s \in SessionIds :
        /\ Live(s) /\ active[s] /\ player[s] = 2
        /\ \E u, v \in Users :
               /\ u # v /\ owner[s] = u
               /\ req[u] = Done("reactivate", Res("Ok", "none"))
               /\ commands[s] = <<Cmd("Reactivate", v)>>
               /\ req[v].pc = "waiting" /\ req[v].sid = s

\* the owner entry of a session that stays live, active and with the same owner
\* stays in the owner index
OwnerEntryKept ==
    \A t \in SessionIds :
        /\ Live(t) /\ active[t] /\ owners[owner[t]] = t
        /\ status'[t] = "running" /\ active'[t] /\ owner'[t] = owner[t]
        => owners'[owner[t]] = t

\* C26: removing an owner entry on behalf of one session never removes the
\* owner entry of a different live session: while user U is the active owner
\* of S2, no ShutdownPlayer and no termination of another session, whose stored
\* owner is still U, takes U's entry out of the owner index.
C26_ForeignOwnerEntryKept == [][OwnerEntryKept]_vars

\* the actor of s, which has closed its queues, leaves its timer, its producer,
\* its owner, its flag and its queues as they are as long as it runs
InertAfterDisconnect ==
    \A s \in SessionIds :
        Live(s) /\ commands_closed[s] /\ status'[s] = "running" =>
            /\ timeout_tx'[s] = timeout_tx[s] /\ timers'[s] = timers[s]
            /\ player'[s] = player[s] /\ (s \in running' <=> s \in running)
            /\ owner'[s] = owner[s] /\ active'[s] = active[s]
            /\ commands'[s] = commands[s] /\ events'[s] = events[s]
            /\ \A u \in Users : req'[u].result.kind = "Ok" => req'[u] = req[u]

\* C27: once a session has run the Disconnect effect, by a command or by a
\* ConnectionReset event, its actor handles no further command and no further
\* producer event: it starts no idle timer, neither shuts down nor replaces the
\* producer, answers no Reactivate with Ok and changes neither owner nor active.
C27_InertAfterDisconnect == [][InertAfterDisconnect]_vars

\* the producer of a session that has sent the connection-lost notice is the
\* one it had when it sent it
NoProducerAfterReset ==
    \A s \in SessionIds :
        Live(s) /\ notices[s].lost > 0 /\ status'[s] = "running" =>
            player'[s] = player[s] /\ ~(s \notin running /\ s \in running')

\* C28: handling a ConnectionReset is terminal: after the connection-lost
\* notice, the producer is never created again for that session.
C28_ConnectionResetTerminal == [][NoProducerAfterReset]_vars

\* a DisconnectTimedOut is queued at s
TimedOutQueued(s) ==
    \E k \in 1..Len(commands_inner[s]) : commands_inner[s][k].kind = "DisconnectTimedOut"

\* an inactive session has its idle timer waiting or its DisconnectTimedOut queued
InactiveTimesOut ==
    \A s \in SessionIds :
        Live(s) /\ ~active[s] => LiveTimers(s) # {} \/ TimedOutQueued(s)

\* C29: an inactive session that is not reactivated terminates by
\* DisconnectTimedOut: in every state in which a live session is inactive, an
\* idle timer waits for it or its DisconnectTimedOut is queued; the timer that
\* waits can expire, and the actor that takes the DisconnectTimedOut terminates
\* with the inactivity notice.
C29_InactiveTimesOut ==
    /\ []InactiveTimesOut
    /\ [](\A s \in SessionIds, i \in TimerIds :
             Live(s) /\ ~active[s] /\ timers[s][i] = "armed" => ENABLED TimerExpire(s, i))
    /\ [][\A s \in SessionIds :
             RecvInner(s) =>
                 Terminates(s) /\ notices'[s].inactive = notices[s].inactive + 1]_vars

\* the timer that a shutdown started for the now inactive session has expired,
\* and its DisconnectTimedOut is the next message of the internal queue
C29_Witness ==
    \E s \in SessionIds :
        /\ Live(s) /\ ~active[s] /\ LiveTimers(s) = {}
        /\ commands_inner[s] # <<>>
        /\ Head(commands_inner[s]) = TimedOut(timeout_tx[s])

\* the event branch of the run loop is taken by an active session only, and a
\* session that is and stays inactive keeps its event stream, and its timer,
\* its owner and its producer too unless it takes a command; the event branch
\* being the only place where events are handled, no event then changes the
\* registry either
EventsOnlyWhileActive ==
    \A s \in SessionIds :
        /\ RecvEvent(s) => active[s]
        /\ Live(s) /\ ~active[s] /\ ~active'[s] /\ status'[s] = "running" =>
               events'[s] = events[s]
        /\ Live(s) /\ ~active[s] /\ status'[s] = "running"
             /\ commands'[s] = commands[s] /\ commands_inner'[s] = commands_inner[s] =>
               /\ events'[s] = events[s] /\ events_closed'[s] = events_closed[s]
               /\ timeout_tx'[s] = timeout_tx[s] /\ timers'[s] = timers[s]
               /\ owner'[s] = owner[s] /\ active'[s] = active[s]
               /\ player'[s] = player[s] /\ notices'[s] = notices[s]

\* C30: producer events are handled only while the session is active: while
\* active is false no producer event is dequeued, and none changes the timer,
\* the owner or the registry.
C30_EventsOnlyWhileActive == [][EventsOnlyWhileActive]_vars

\* an inactive session holds an event of its producer that it has not handled,
\* while it has handled a command: a Reactivate that failed
C30_Witness ==
    \E s \in SessionIds :
        /\ Live(s) /\ ~active[s] /\ events[s] # <<>> /\ commands[s] = <<>>
        /\ \E u \in Users :
               /\ req[u].pc = "done" /\ req[u].op = "reactivate"
               /\ req[u].result.kind \in {"Storage", "Other", "Librespot"}

\* the step in which the events branch of the run loop of s finds the stream
\* ended
StreamEnds(s) == RecvEvent(s) /\ events[s] = <<>>

\* the step in which the actor of s handles the Stopped event
HandlesStopped(s) == RecvEvent(s) /\ events[s] # <<>> /\ Head(events[s]) = "Stopped"

\* the step in which the actor of s handles the ShutdownPlayer command and
\* keeps running
HandlesShutdownPlayer(s) == RecvCommand(s) /\ Handles(s, "ShutdownPlayer")

\* what a shutdown of the player does to s in a step: the producer is stopped,
\* the session is inactive, the owner index has no entry for its owner, a new
\* idle timer is the only one that waits, and the actor runs on with the owner
\* field it had, the guild index being left as it was
ShutdownEffect(s) ==
    /\ s \notin running'
    /\ ~active'[s]
    /\ owners'[owner[s]] = None
    /\ \A u \in Users \ {owner[s]} : owners'[u] = owners[u]
    /\ timeout_tx'[s] # None
    /\ timers'[s] = [i \in TimerIds |-> IF i = timeout_tx'[s] THEN "armed"
                                        ELSE IF timers[s][i] = "armed" THEN "idle"
                                        ELSE timers[s][i]]
    /\ status'[s] = "running"
    /\ sessions' = sessions
    /\ guild_id'[s] = guild_id[s]
    /\ owner'[s] = owner[s]
    /\ commands_closed'[s] = commands_closed[s]

\* C31: when the event stream of an active session ends, the effect is that of
\* the Stopped event and of the ShutdownPlayer command: the producer is
\* stopped, active is false, the owner is removed from the owner index and the
\* idle timer is restarted, while the actor keeps running and stays registered
\* for its guild.
C31_StreamEndShutsDown ==
    [][\A s \in SessionIds :
          /\ StreamEnds(s) => active[s] /\ ShutdownEffect(s)
          /\ HandlesStopped(s) => ShutdownEffect(s)
          /\ HandlesShutdownPlayer(s) => ShutdownEffect(s)]_vars

\* the producer of a session has ended on its own, the only input since the
\* session was created, and the session, having found its event stream ended,
\* is inactive with an idle timer waiting, registered for its guild
C31_Witness ==
    \E s \in SessionIds :
        /\ inputs = 2
        /\ Live(s) /\ ~active[s] /\ s \notin running /\ ~events_closed[s]
        /\ sessions[guild_id[s]] = s
        /\ owners[owner[s]] = None
        /\ LiveTimers(s) = {timeout_tx[s]}

\* the step in which the actor of s takes a Disconnect command from its
\* external queue
HandlesDisconnect(s) ==
    /\ RecvCommand(s)
    /\ commands[s] # <<>>
    /\ Head(commands[s]).kind = "Disconnect"

\* what the Disconnect effect and the termination that follows do to s in a
\* step: the call is left, the endpoint is closed, no idle timer waits, and the
\* actor is gone
DisconnectEffect(s) ==
    /\ Terminates(s)
    /\ inCall'[guild_id[s]] = FALSE
    /\ commands_closed'[s]
    /\ timeout_tx'[s] = None
    /\ \A i \in TimerIds : timers'[s][i] # "armed"

\* C32: the inactivity notice is sent exactly when the session terminates
\* through DisconnectTimedOut, and once: the step that takes DisconnectTimedOut
\* from the internal queue is the only one that sends it, a session has sent at
\* most one and is terminated when it has; the step that takes a Disconnect
\* command sends none.  Both steps run the Disconnect effect and terminate the
\* actor.
C32_InactivityNotice ==
    /\ [](\A s \in SessionIds :
             /\ notices[s].inactive <= 1
             /\ notices[s].inactive = 1 => status[s] = "dropped")
    /\ [][\A s \in SessionIds :
             /\ TimesOut(s) <=> RecvInner(s)
             /\ RecvInner(s) =>
                    /\ Head(commands_inner[s]).kind = "DisconnectTimedOut"
                    /\ DisconnectEffect(s)
                    /\ notices'[s].inactive = notices[s].inactive + 1
             /\ HandlesDisconnect(s) =>
                    DisconnectEffect(s) /\ notices'[s] = notices[s]]_vars

\* one session has terminated through DisconnectTimedOut, with its notice,
\* and another has terminated without one
C32_Witness ==
    \E s, o \in SessionIds :
        /\ status[s] = "dropped" /\ notices[s].inactive = 1
        /\ status[o] = "dropped" /\ notices[o].inactive = 0

\* the step in which the create of user u returns Ok with session s
CreateSucceeds(u, s) ==
    /\ req[u].pc = "creating" /\ req[u].sid = s
    /\ req'[u] = Done("create", Res("Ok", "none"))

\* C33: a session whose creation succeeds starts active, owned by the user who
\* created it, with exactly one idle timer waiting, the one whose token it
\* holds, with no playback embed and no lyrics task, and with its run loop
\* running; the handle the caller gets is valid.
C33_CreatedSession ==
    [][\A u \in Users, s \in SessionIds :
          CreateSucceeds(u, s) =>
              /\ active'[s]
              /\ owner'[s] = u
              /\ timeout_tx'[s] # None
              /\ {i \in TimerIds : timers'[s][i] = "armed"} = {timeout_tx'[s]}
              /\ playback_embed'[s] = None
              /\ lyrics_embed'[s] = None
              /\ lyrics_tasks'[s] = {}
              /\ status[s] = "creating" /\ status'[s] = "running"
              /\ ~commands_closed'[s]]_vars

\* a second session has just been created while the first has a playback embed
\* attached: it is active with its first idle timer waiting, its handle is
\* valid and it has taken no command
C33_Witness ==
    \E u \in Users, s, o \in SessionIds :
        /\ req[u] = Done("create", Res("Ok", "none"))
        /\ Live(s) /\ active[s] /\ owner[s] = u /\ owners[u] = s
        /\ LiveTimers(s) = {timeout_tx[s]}
        /\ is_valid(s) /\ commands[s] = <<>> /\ events[s] = <<>>
        /\ playback_embed[s] = None /\ lyrics_embed[s] = None
        /\ o # s /\ playback_embed[o] # None

\* the projections of s are the same before and after
EmbedsUnchanged(s) ==
    /\ playback_embed'[s] = playback_embed[s]
    /\ lyrics_embed'[s] = lyrics_embed[s]
    /\ lyrics_tasks'[s] = lyrics_tasks[s]
    /\ updated'[s] = updated[s]

\* a callback of the handle of s returns Event::Cancel in the step
Cancels(s) == cancelled'[s] # cancelled[s]

InvalidCallbackCancels ==
    \A s \in SessionIds :
        /\ Cancels(s) =>
               /\ ~is_valid(s)
               /\ \E k \in CallbackKinds \ cancelled[s] : cancelled'[s] = cancelled[s] \cup {k}
               /\ SessionUnchanged(s) /\ EmbedsUnchanged(s)
               /\ logged' = logged /\ req' = req /\ cb' = cb
        /\ \A k \in CallbackKinds : ~is_valid(s) /\ act_invalid(s, k) => Cancels(s)
        /\ DriverDisconnect(s) \/ (\E u \in Users : ClientDisconnect(s, u)) =>
               is_valid(s) /\ ~Cancels(s)
        /\ ~is_valid(s) =>
               /\ Len(commands'[s]) <= Len(commands[s])
               /\ cb[s].pc = "idle" => cb'[s].pc = "idle"

\* C34: a transport callback on a handle that is not valid sends no command and
\* changes no state: it only returns the request to be taken off the call, for
\* the forced disconnect and for the participant that left alike; the
\* callbacks that do send run on a valid handle.
C34_InvalidCallbackCancels == [][InvalidCallbackCancels]_vars

\* both callbacks of the handle of a session have been cancelled
C34_Witness == \E s \in SessionIds : cancelled[s] = CallbackKinds

\* the handle of a session whose actor has exited, or whose creation failed,
\* is not valid
InvalidWhenGone ==
    \A s \in SessionIds : status[s] \in {"dropped", "failed"} => ~is_valid(s)

\* a handle that is not valid stays so; the step in which the actor exits and
\* the step in which the Disconnect effect runs for a lost connection leave the
\* handle invalid
ValidityMonotone ==
    \A s \in SessionIds :
        /\ ~is_valid(s) => commands_closed'[s]
        /\ Terminates(s) => commands_closed'[s]
        /\ notices'[s].lost > notices[s].lost => commands_closed'[s] /\ status'[s] = "running"

\* C35: the validity of a handle is derived from its endpoint and is monotone:
\* it is false as soon as the Disconnect effect has closed the queue or the
\* actor has exited, and once false it is never true again, a new session for
\* the same guild notwithstanding.
C35_ValidityMonotone == []InvalidWhenGone /\ [][ValidityMonotone]_vars

\* the Disconnect effect has closed the queue of a session that lost its
\* connection and still runs, and a session created later for the same guild
\* is registered with a valid handle
C35_Witness ==
    \E s, n \in SessionIds :
        /\ Live(s) /\ ~is_valid(s) /\ notices[s].lost = 1
        /\ n > s /\ guild_id[n] = guild_id[s]
        /\ Live(n) /\ is_valid(n) /\ sessions[guild_id[n]] = n

\* the step in which the actor of s handles the producer event e
HandlesEvent(s, e) == RecvEvent(s) /\ events[s] # <<>> /\ Head(events[s]) = e

PlaybackEmbedUpdated ==
    \A s \in SessionIds, e \in PlayerEvents :
        HandlesEvent(s, e) =>
            /\ status'[s] = "running"
            /\ IF playback_embed[s] # None
               THEN /\ updated'[s].force = (e # "TrackChanged")
                    /\ updated'[s].result \in UpdateOutcomes
                    /\ playback_embed'[s] = IF updated'[s].result = "error"
                                            THEN None ELSE playback_embed[s]
               ELSE playback_embed'[s] = None /\ updated'[s] = updated[s]

\* C36: every producer event except TrackChanged updates the attached playback
\* embed with force = true, TrackChanged with force = false; an update that
\* fails detaches the embed, one that succeeds leaves it attached, and the
\* actor keeps running in both cases.
C36_PlaybackEmbedUpdated == [][PlaybackEmbedUpdated]_vars

\* the forced update of the playback embed of a running session has failed,
\* and the embed is detached
C36_Witness ==
    \E s \in SessionIds :
        /\ Live(s) /\ playback_embed[s] = None
        /\ updated[s] = [force |-> TRUE, result |-> "error"]

\* C37: handling TrackChanged leaves the idle timer and its token, active, the
\* owner, the producer handle and the registry as they were.
C37_TrackChangedFrame ==
    [][\A s \in SessionIds :
          HandlesEvent(s, "TrackChanged") =>
              /\ timeout_tx'[s] = timeout_tx[s] /\ timers'[s] = timers[s]
              /\ active'[s] = active[s] /\ owner'[s] = owner[s]
              /\ player'[s] = player[s] /\ (s \in running') = (s \in running)
              /\ sessions' = sessions /\ owners' = owners]_vars

\* a session has handled TrackChanged, with the unforced update of its
\* playback embed, and is active with its idle timer waiting
C37_Witness ==
    \E s \in SessionIds :
        /\ Live(s) /\ active[s] /\ events[s] = <<>>
        /\ updated[s] = [force |-> FALSE, result |-> "ok"]
        /\ playback_embed[s] # None
        /\ LiveTimers(s) = {timeout_tx[s]}

\* the step in which the actor of s handles CreateLyricsEmbed and keeps running
HandlesCreateLyrics(s) == RecvCommand(s) /\ Handles(s, "CreateLyricsEmbed")

\* a session has at most one lyrics task, the one it holds the handle of, and a
\* session whose actor is gone has none
OneLyricsTask ==
    \A s \in SessionIds :
        /\ Cardinality(lyrics_tasks[s]) <= 1
        /\ lyrics_tasks[s] = IF lyrics_embed[s] = None THEN {} ELSE {lyrics_embed[s]}
        /\ status[s] # "running" => lyrics_tasks[s] = {}

\* a CreateLyricsEmbed either attaches a new task, the previous one being
\* cancelled, or leaves the attached one alone; termination cancels the
\* attached task
LyricsTaskReplaced ==
    \A s \in SessionIds :
        /\ HandlesCreateLyrics(s) =>
               \/ /\ lyrics_embed'[s] \notin {None, lyrics_embed[s]}
                  /\ lyrics_tasks'[s] = {lyrics_embed'[s]}
               \/ /\ lyrics_embed'[s] = lyrics_embed[s]
                  /\ lyrics_tasks'[s] = lyrics_tasks[s]
        /\ Terminates(s) => lyrics_tasks'[s] = {} /\ lyrics_embed'[s] = None
        /\ lyrics_tasks'[s] # lyrics_tasks[s] => HandlesCreateLyrics(s) \/ Terminates(s)

CreationFails(s) == errors'[s] > errors[s]

\* the step in which the actor of s takes a command that creates an embed
HandlesCreateEmbed(s) ==
    /\ RecvCommand(s)
    /\ commands[s] # <<>>
    /\ Head(commands[s]).kind \in EmbedKinds

ErrorsAbsorbed ==
    \A s \in SessionIds :
        /\ CreationFails(s) =>
               /\ HandlesCreateEmbed(s)
               /\ status'[s] = "running"
               /\ owner'[s] = owner[s] /\ active'[s] = active[s]
               /\ timeout_tx'[s] = timeout_tx[s] /\ timers'[s] = timers[s]
               /\ playback_embed'[s] = playback_embed[s]
               /\ lyrics_embed'[s] = lyrics_embed[s] /\ lyrics_tasks'[s] = lyrics_tasks[s]
               /\ sessions' = sessions /\ owners' = owners
               /\ req' = req /\ notices' = notices
        /\ HandlesCreateEmbed(s) => status'[s] = "running" /\ req' = req
        /\ logged'[s] > logged[s] \/ (ClientDisconnectShutdown(s) /\ ~is_valid(s)) =>
               /\ ~is_valid(s)
               /\ status' = status
               /\ SessionUnchanged(s) /\ EmbedsUnchanged(s)
               /\ req' = req

\* C39: the errors of the commands that have no reply are absorbed: a creation
\* of an embed that fails, and a ShutdownPlayer or a Disconnect sent through a
\* closed endpoint, neither end the run loop of any actor nor give the caller
\* an error; after a failed creation of a playback embed the owner, the active
\* flag, the idle timer and the playback embed attached before are unchanged.
C39_ErrorsAbsorbed == [][ErrorsAbsorbed]_vars

\* the creation of another embed has failed while a playback embed is
\* attached: the actor runs on with that embed attached
C39_Witness ==
    \E s \in SessionIds :
        /\ Live(s) /\ errors[s] = 1
        /\ playback_embed[s] # None /\ lyrics_embed[s] = None
        /\ commands[s] = <<>>

====
